---- MODULE Spec2Model ----
(***************************************************************************)
(* Contact-form intake of the dynamis repository: the duplicate-submission *)
(* guard, the rate limiters, the request validators and the message        *)
(* controllers, in their CommonJS ("cjs") and ES-module ("esm") variants.  *)
(* Strings are sequences of one-character strings; a JavaScript undefined  *)
(* is the value UNDEF.  Time is Date.now() in milliseconds.                *)
(***************************************************************************)
EXTENDS Integers, Sequences, FiniteSets, TLC

VARIABLES variant, now, submissionHashes, timers, admits, repeats,
          limiter, storage, windows,
          pc, ran, saved, notified, inflight, isProduction, telegramConfigured, messages, removed, db, migrator, client,
          sessions, csrfTokens, issued,
          req, res, nreq, nticks

guardVars == <<submissionHashes, timers, admits, repeats>>
limVars == <<limiter, storage, windows>>
csrfVars == <<sessions, csrfTokens, issued>>
routeVars == <<pc, ran, saved, notified, inflight, isProduction, telegramConfigured, messages, removed, db, migrator,
               client, sessions, csrfTokens, issued>>
vars == <<variant, now, submissionHashes, timers, admits, repeats,
          limiter, storage, windows, pc, ran, saved, notified, inflight, isProduction, telegramConfigured, messages, removed, db, migrator, client,
          sessions, csrfTokens, issued,
          req, res, nreq, nticks>>

(***************************************************************************)
(* Bounds of the exploration.                                              *)
(***************************************************************************)
MaxReqs == 4
MaxTicks == 3
MaxLimReqs == 7
MaxLimTicks == 2
MaxIntake == 2
MaxFieldReqs == 1

(***************************************************************************)
(* Strings.                                                                *)
(***************************************************************************)
UNDEF == <<"<undefined>">>

\* Template-literal interpolation `${x}`: undefined prints as "undefined".
ToStr(x) == IF x = UNDEF THEN <<"u","n","d","e","f","i","n","e","d">> ELSE x

\* JavaScript truthiness of a string-or-undefined value.
Truthy(x) == x # UNDEF /\ x # <<>>

\* String.prototype.trim over the characters of the model (space is the only
\* white space in the alphabet).
Whitespace == {" "}

RECURSIVE TrimLeft(_)
TrimLeft(s) == IF s # <<>> /\ Head(s) \in Whitespace THEN TrimLeft(Tail(s)) ELSE s

RECURSIVE TrimRight(_)
TrimRight(s) ==
  IF s # <<>> /\ s[Len(s)] \in Whitespace THEN TrimRight(SubSeq(s, 1, Len(s) - 1)) ELSE s

Trim(s) == TrimRight(TrimLeft(s))

\* x || '' and the toString() express-validator applies to a missing field.
OrEmpty(x) == IF x = UNDEF THEN <<>> ELSE x

Digits == {"0", "1", "2", "3", "4", "5", "6", "7", "8", "9"}

AllIn(s, chars) == \A i \in 1..Len(s) : s[i] \in chars

LenIn(s, lo, hi) == Len(s) >= lo /\ Len(s) <= hi

\* /^[^\s@]+@[^\s@]+\.[^\s@]+$/
EmailRegex(s) ==
  /\ \A i \in 1..Len(s) : s[i] \notin Whitespace
  /\ Cardinality({i \in 1..Len(s) : s[i] = "@"}) = 1
  /\ \E i \in 2..Len(s) : \E j \in (i + 2)..(Len(s) - 1) : s[i] = "@" /\ s[j] = "."

LowerLetters == <<"a", "b", "c", "d", "e", "f", "g", "h", "i", "j", "k", "l", "m",
                  "n", "o", "p", "q", "r", "s", "t", "u", "v", "w", "x", "y", "z">>
UpperLetters == <<"A", "B", "C", "D", "E", "F", "G", "H", "I", "J", "K", "L", "M",
                  "N", "O", "P", "Q", "R", "S", "T", "U", "V", "W", "X", "Y", "Z">>
Letters == { LowerLetters[i] : i \in 1..26 } \cup { UpperLetters[i] : i \in 1..26 }

\* s.split(c) for a one-character separator c.
RECURSIVE SplitAt(_, _)
SplitAt(s, c) ==
  IF \E i \in 1..Len(s) : s[i] = c
    THEN LET i == CHOOSE k \in 1..Len(s) : s[k] = c /\ \A m \in 1..(k - 1) : s[m] # c
         IN  <<SubSeq(s, 1, i - 1)>> \o SplitAt(SubSeq(s, i + 1, Len(s)), c)
    ELSE <<s>>

\* The characters of an unquoted local part besides letters and digits (the
\* apostrophe and the backquote, which are among them, are left out of the
\* alphabet of the model).
AtextMarks == {"!", "#", "$", "%", "&", "*", "+", "-", "/", "=", "?", "^",
               "_", "{", "|", "}", "~"}

\* /^[a-zA-Z0-9](?:[a-zA-Z0-9\-]*[a-zA-Z0-9])?$/ and, with first == Letters,
\* /^[a-zA-Z](?:[a-zA-Z0-9\-]*[a-zA-Z0-9])?$/
DomainSegment(seg, first) ==
  /\ seg # <<>>
  /\ seg[1] \in first
  /\ seg[Len(seg)] \in Letters \cup Digits
  /\ AllIn(seg, Letters \cup Digits \cup {"-"})

\* isEmail() of validator.js with its default options, on the ASCII strings
\* of the model (which hold no double quote): user@domain split at the last
\* "@"; the domain a host name of two labels or more whose last label is two
\* letters or more (or xn and two more characters) and whose labels are
\* letters, digits and inner hyphens; the user dot-separated non-empty atoms.
IsEmail(s) ==
  LET parts == SplitAt(s, "@")
      domain == parts[Len(parts)]
      user == SubSeq(s, 1, Len(s) - Len(domain) - 1)
      labels == SplitAt(domain, ".")
      tld == labels[Len(labels)]
      atoms == SplitAt(user, ".")
  IN  /\ Len(s) <= 254
      /\ Len(parts) >= 2
      /\ Len(user) <= 64
      /\ Len(domain) <= 254
      /\ Len(labels) >= 2
      /\ \/ Len(tld) >= 2 /\ AllIn(tld, Letters)
         \/ /\ Len(tld) >= 4
            /\ tld[1] \in {"x", "X"} /\ tld[2] \in {"n", "N"}
            /\ AllIn(tld, Letters \cup Digits \cup {"-"})
      /\ \A i \in 1..Len(labels) :
           /\ LenIn(labels[i], 1, 63)
           /\ AllIn(labels[i], Letters \cup Digits \cup {"-"})
           /\ labels[i][1] # "-"
           /\ labels[i][Len(labels[i])] # "-"
      /\ \A i \in 1..Len(atoms) :
           atoms[i] # <<>> /\ AllIn(atoms[i], Letters \cup Digits \cup AtextMarks)

\* Joi.string().email({minDomainSegments: 2, tlds: {allow: false}}): exactly
\* one "@", the local part dot-separated non-empty atoms, the domain of two
\* segments or more, each of letters, digits and inner hyphens, the last one
\* starting with a letter; no list of top-level domains is consulted.
JoiEmail(s) ==
  LET parts == SplitAt(s, "@")
      local == parts[1]
      domain == parts[Len(parts)]
      atoms == SplitAt(local, ".")
      segments == SplitAt(domain, ".")
  IN  /\ s # <<>>
      /\ Len(parts) = 2
      /\ local # <<>>
      /\ Len(s) <= 254
      /\ Len(local) <= 64
      /\ \A i \in 1..Len(atoms) :
           atoms[i] # <<>> /\ AllIn(atoms[i], Letters \cup Digits \cup AtextMarks)
      /\ domain # <<>>
      /\ Len(domain) <= 256
      /\ Len(segments) >= 2
      /\ \A i \in 1..Len(segments) :
           /\ Len(segments[i]) <= 63
           /\ DomainSegment(segments[i],
                IF i < Len(segments) THEN Letters \cup Digits ELSE Letters)

\* /^[\d\s\-+()]*$/
PhoneChars == Digits \cup Whitespace \cup {"-", "+", "(", ")"}
PhonePattern(s) == AllIn(s, PhoneChars)

\* #isValidPhone: if (!phone) return true; /^[+]?[\s\d-]{6,20}$/.test(phone)
IsValidPhoneCjs(s) ==
  LET rest == IF s # <<>> /\ Head(s) = "+" THEN Tail(s) ELSE s
      ok(t) == Len(t) >= 6 /\ Len(t) <= 20 /\ AllIn(t, Digits \cup Whitespace \cup {"-"})
  IN  IF ~Truthy(s) THEN TRUE ELSE ok(rest)

(***************************************************************************)
(* Duplicate guard (duplicateCheck.middleware.js).                         *)
(***************************************************************************)
HASH_TTL == 5 * 60 * 1000

Variants == {"cjs", "esm"}

\* hashInput = `${ip}:${email}:${subject}:${message}`; the SHA-256 digest is
\* taken to be collision free, so the digest is identified with its input.
createSubmissionHash(r) ==
  ToStr(r.ip) \o <<":">> \o ToStr(r.body.email) \o <<":">>
    \o ToStr(r.body.subject) \o <<":">> \o ToStr(r.body.message)

\* const { email, subject, message } = req.body throws on a missing body.
HashThrows(r) == ~r.hasBody

\* The paths of the requests, as strings of characters.
MessagesPath == <<"/","m","e","s","s","a","g","e","s">>
ApiMessagesPath == <<"/","a","p","i">> \o MessagesPath
ApiMessageIdPath == ApiMessagesPath \o <<"/","4","2">>
HealthPath == <<"/","h","e","a","l","t","h">>
ApiHealthPath == <<"/","a","p","i">> \o HealthPath

\* String.prototype.includes
Includes(s, sub) ==
  \E i \in 0..(Len(s) - Len(sub)) : SubSeq(s, i + 1, i + Len(sub)) = sub

\* req.path.includes('/messages')
MentionsMessages(path) == Includes(path, MessagesPath)

\* The middleware returns next() without looking at the store.
GuardSkips(v, r) ==
  IF v = "cjs"
    THEN r.method # "POST" \/ ~r.mentionsMessages
    ELSE r.method # "POST" \/ r.path \in {ApiHealthPath, HealthPath}

\* A purge that keeps entries for twice the TTL (mutation of PurgeExpired).
PurgeExpiredLate(store, t) ==
  [h \in {k \in DOMAIN store : ~(t - store[k] > 2 * HASH_TTL)} |-> store[h]]

\* "Clean up old hashes": entries with now - timestamp > HASH_TTL are deleted.
PurgeExpired(store, t) ==
  [h \in {k \in DOMAIN store : ~(t - store[k] > HASH_TTL)} |-> store[h]]

MapSet(store, h, t) ==
  [k \in (DOMAIN store) \cup {h} |-> IF k = h THEN t ELSE store[k]]

MapDelete(store, h) == [k \in (DOMAIN store) \ {h} |-> store[k]]

\* setTimeout(() => submissionHashes.delete(hash), HASH_TTL): one more pending
\* callback.  Every call arms a callback of its own, so a hash can have several
\* with the same due time; n tells these apart.
setTimeout(tms, hash, due) ==
  tms \cup {[hash |-> hash, due |-> due,
             n |-> 1 + Cardinality({ tm \in tms : tm.hash = hash /\ tm.due = due })]}

\* One run of duplicateSubmissionCheck(req, res, next) in variant v at time t.
\* out: "skip"  next() without a check        "next"  hash recorded, next()
\*      "dup"   429 duplicate                 "open"  caught, logged, next()
\*      "throw" the exception leaves the middleware
duplicateSubmissionCheck(v, r, store, tms, t) ==
  LET hash == createSubmissionHash(r)
      purged == PurgeExpired(store, t)
  IN  IF GuardSkips(v, r)
        THEN [out |-> "skip", store |-> store, timers |-> tms]
      ELSE IF HashThrows(r)
        THEN [out |-> IF v = "esm" THEN "open" ELSE "throw",
              store |-> store, timers |-> tms]
      ELSE IF hash \in DOMAIN purged
        THEN [out |-> "dup", store |-> purged, timers |-> tms]
      ELSE [out |-> "next", store |-> MapSet(purged, hash, t),
            timers |-> IF v = "cjs" THEN setTimeout(tms, hash, t + HASH_TTL) ELSE tms]

(***************************************************************************)
(* Requests and responses.                                                 *)
(***************************************************************************)
NoBody == [email |-> UNDEF, subject |-> UNDEF, message |-> UNDEF]

IPs == {<<"1">>, <<"2">>}
Emails == {<<"a","@","b",".","c">>, UNDEF}
Subjects == {<<"H","i">>}
Bodies == {<<"h","e","l","l","o"," ","w","o","r","l","d">>}

GuardRequest0(m, p, hb, ip, e, s, b) ==
  [method |-> m, path |-> p, mentionsMessages |-> MentionsMessages(p),
   hasBody |-> hb, ip |-> ip,
   body |-> IF hb THEN [email |-> e, subject |-> s, message |-> b] ELSE NoBody]

\* Form posts from every address, and one request of each other shape: a
\* post to the path of one message, a post whose body was not parsed, a
\* GET, and a post to the health path.
GuardRequests ==
  { GuardRequest0("POST", ApiMessagesPath, TRUE, ip, e, s, b) :
      ip \in IPs, e \in Emails, s \in Subjects, b \in Bodies }
  \cup
  { GuardRequest0("POST", ApiMessageIdPath, TRUE, <<"1">>, e, s, b) :
      e \in Emails \ {UNDEF}, s \in Subjects, b \in Bodies }
  \cup
  { GuardRequest0(x[1], x[2], x[3], <<"1">>, UNDEF, UNDEF, UNDEF) :
      x \in { <<"POST", ApiMessagesPath, FALSE>>, <<"GET", ApiMessagesPath, TRUE>>,
              <<"POST", ApiHealthPath, TRUE>> } }

NoReq == [method |-> "NONE", id |-> 0, path |-> "", entry |-> "", after |-> {}]

\* No form script is running.
NoClient == [form |-> "none"]

\* No database connection is being set up; no migration run is under way.
NoDb == [state |-> "none"]
NoMigrator == [state |-> "none"]

\* status 0: no response was written, the request went to next().
\* at: Date.now() when the request was handled; prev, reps: the time of the
\* last admission of the same key and the rejected repeats since (history).
\* retryAfter: the retryAfter of the answer, ABSENT when it carries none and
\* NAN when it is Math.ceil(undefined / 1000); nth, left: the position of the
\* request in its client's window and the time left in that window (history).
ABSENT == -1
NAN == -2
NoRes == [stage |-> "none", out |-> "none", status |-> 0, logged |-> FALSE,
          at |-> 0, prev |-> -1, reps |-> 0,
          retryAfter |-> ABSENT, nth |-> 0, left |-> 0,
          success |-> FALSE, errors |-> {},
          dbOk |-> TRUE, tgOk |-> TRUE, id |-> 0]

\* An exception that leaves a middleware reaches the global error handler,
\* which answers err.statusCode || 500.
GuardStatus(out) ==
  CASE out = "dup" -> 429
    [] out = "throw" -> 500
    [] OTHER -> 0

Lookup(f, k, d) == IF k \in DOMAIN f THEN f[k] ELSE d

(***************************************************************************)
(* Validators.  A body is a record of the submitted fields, each a string  *)
(* or UNDEF.  An error entry names the field it is about, the rule that    *)
(* failed, and whether the entry carries the field name in the response.   *)
(***************************************************************************)
Err(f, rule, tagged) == [field |-> f, rule |-> rule, tagged |-> tagged]

ErrIf(failed, f, rule, tagged) == IF failed THEN {Err(f, rule, tagged)} ELSE {}
ErrUnless(ok, f, rule, tagged) == IF ok THEN {} ELSE {Err(f, rule, tagged)}

\* s.split(/\s+/): the pieces between the runs of white space; a string that
\* starts or ends with white space yields an empty first or last piece, and
\* the empty string yields one empty piece.
RECURSIVE Tokens(_)
Tokens(s) ==
  IF \E i \in 1..Len(s) : s[i] \in Whitespace
    THEN LET i == CHOOSE k \in 1..Len(s) :
                    s[k] \in Whitespace /\ \A m \in 1..(k - 1) : s[m] \notin Whitespace
         IN  <<SubSeq(s, 1, i - 1)>> \o Tokens(TrimLeft(SubSeq(s, i, Len(s))))
    ELSE <<s>>

\* parts.join(' ')
RECURSIVE JoinSp(_)
JoinSp(parts) ==
  IF parts = <<>> THEN <<>>
  ELSE IF Len(parts) = 1 THEN parts[1]
  ELSE parts[1] \o <<" ">> \o JoinSp(Tail(parts))

\* String.prototype.toLowerCase on ASCII strings.
ToLower(s) ==
  [i \in DOMAIN s |->
     IF \E k \in 1..26 : UpperLetters[k] = s[i]
       THEN LowerLetters[CHOOSE k \in 1..26 : UpperLetters[k] = s[i]]
       ELSE s[i]]

\* normalizeEmail() of validator.js with its default options, for a domain
\* of none of the mail providers it knows (gmail, icloud, outlook, yahoo,
\* yandex): user and domain, split at the last "@", in lower case.
normalizeEmail(s) ==
  LET parts == SplitAt(s, "@")
      domain == parts[Len(parts)]
      user == IF Len(parts) = 1 THEN <<>> ELSE SubSeq(s, 1, Len(s) - Len(domain) - 1)
  IN  ToLower(user) \o <<"@">> \o ToLower(domain)

\* toBool of #normalizeMessageData, on strings.
ToBool(x) ==
  x # UNDEF /\ ToLower(Trim(x)) \in {<<"o","n">>, <<"t","r","u","e">>, <<"1">>, <<"y","e","s">>}

\* createMessageSchema run by validate() of security.middleware.js (ES module
\* route).  optional() skips an undefined field; every chain holds a single
\* validator, so a failing field yields one entry, tagged with its path.
createMessageSchema(b) ==
  ErrUnless(LenIn(Trim(OrEmpty(b.firstName)), 2, 50),
      "firstName", "isLength", TRUE)
  \cup
  ErrUnless(b.lastName = UNDEF \/ Len(Trim(b.lastName)) <= 50,
      "lastName", "isLength", TRUE)
  \cup
  ErrUnless(IsEmail(OrEmpty(b.email)),
      "email", "isEmail", TRUE)
  \cup
  ErrUnless(b.phone = UNDEF \/ PhonePattern(Trim(b.phone)),
      "phone", "matches", TRUE)
  \cup
  ErrUnless(LenIn(Trim(OrEmpty(b.subject)), 2, 100),
      "subject", "isLength", TRUE)
  \cup
  ErrUnless(LenIn(Trim(OrEmpty(b.message)), 10, 2000),
      "message", "isLength", TRUE)
  \cup
  ErrUnless(b.honeypot = UNDEF \/ Trim(b.honeypot) = <<>>,
      "honeypot", "isEmpty", TRUE)

\* The sanitizers of createMessageSchema: validation.run(req) writes the
\* sanitized value of every field back into req.body, whether or not the
\* field passes its validator.  A missing field is taken as the empty
\* string, except under optional(), which leaves it alone.
sanitizeBody(b) ==
  [b EXCEPT !.firstName = Trim(OrEmpty(@)),
            !.lastName = IF @ = UNDEF THEN @ ELSE Trim(@),
            !.email = normalizeEmail(OrEmpty(@)),
            !.phone = IF @ = UNDEF THEN @ ELSE Trim(@),
            !.subject = Trim(OrEmpty(@)),
            !.message = Trim(OrEmpty(@)),
            !.honeypot = IF @ = UNDEF THEN @ ELSE Trim(@)]

\* MessageController.#normalizeMessageData (ES module).  sanitizeHtml leaves
\* the strings of the model, which hold no markup, as they are.
normalizeMessageData(b) ==
  LET split == Truthy(b.name) /\ ~Truthy(b.firstName) /\ ~Truthy(b.lastName)
      parts == IF split THEN Tokens(Trim(b.name)) ELSE <<>>
      first == IF split THEN (IF parts = <<>> THEN <<>> ELSE parts[1])
                        ELSE OrEmpty(b.firstName)
      last == IF split THEN (IF Len(parts) > 1 THEN JoinSp(Tail(parts)) ELSE <<>>)
                       ELSE OrEmpty(b.lastName)
  IN  [firstName |-> Trim(first),
       lastName |-> Trim(last),
       email |-> Trim(ToLower(OrEmpty(b.email))),
       subject |-> Trim(OrEmpty(b.subject)),
       message |-> Trim(IF Truthy(b.message) THEN b.message ELSE OrEmpty(b.content)),
       phone |-> IF Truthy(b.phone) THEN Trim(b.phone) ELSE <<>>,
       privacyPolicyAccepted |-> ToBool(b.privacyPolicyAccepted)]

\* validateContactForm (Joi, abortEarly: false) on normalized data; the
\* controller maps every detail to {field: detail.context.key, ...}.
validateContactForm(d) ==
  ErrUnless(LenIn(d.firstName, 2, 50),
      "firstName", "string", TRUE)
  \cup
  ErrUnless(LenIn(d.lastName, 2, 50),
      "lastName", "string", TRUE)
  \cup
  ErrUnless(JoiEmail(d.email),
      "email", "string", TRUE)
  \cup
  ErrUnless(PhonePattern(d.phone),
      "phone", "pattern", TRUE)
  \cup
  ErrUnless(LenIn(d.subject, 2, 100),
      "subject", "string", TRUE)
  \cup
  ErrUnless(LenIn(d.message, 10, 2000),
      "message", "string", TRUE)
  \cup
  ErrUnless(d.privacyPolicyAccepted,
      "privacyPolicyAccepted", "any.only", TRUE)

\* The content the CommonJS controller validates and stores.
normalizedContentCjs(b) ==
  IF b.content # UNDEF /\ Trim(b.content) # <<>> THEN b.content ELSE OrEmpty(b.message)

\* MessageController.#validateInput (CommonJS): the errors are bare message
\* strings, pushed in the order email, phone, message.
validateInputCjs(b) ==
  ErrUnless(Truthy(b.email) /\ EmailRegex(b.email),
      "email", "email", FALSE)
  \cup
  ErrIf(Truthy(b.phone) /\ ~IsValidPhoneCjs(b.phone),
      "phone", "phone", FALSE)
  \cup
  ErrIf(Len(Trim(normalizedContentCjs(b))) < 10,
      "message", "message", FALSE)

\* The first and last name the CommonJS controller hands to the service.
namesCjs(b) ==
  LET split == Truthy(b.name) /\ (~Truthy(b.firstName) \/ ~Truthy(b.lastName))
      parts == IF split THEN Tokens(Trim(b.name)) ELSE <<>>
      \* firstName || parts.shift(): the shift happens only without a first name
      rest == IF Truthy(b.firstName) \/ parts = <<>> THEN parts ELSE Tail(parts)
      first == IF ~split \/ Truthy(b.firstName) THEN b.firstName
               ELSE IF parts # <<>> THEN parts[1] ELSE <<>>
      last == IF ~split \/ Truthy(b.lastName) THEN b.lastName
              ELSE JoinSp(rest)
  IN  [firstName |-> first, lastName |-> last]

\* MessageService.createMessage: "Ensure required fields are present".
serviceRequiredMissing(b) ==
  LET n == namesCjs(b)
  IN  ~Truthy(n.firstName) \/ ~Truthy(n.lastName) \/ ~Truthy(b.email)
        \/ ~Truthy(normalizedContentCjs(b))

\* FormController.submitForm: requiredFields.filter(f => !req.body[f]?.trim()).
missingFieldsForm(b) ==
  { f \in {"firstName", "email", "message"} :
      LET v == CASE f = "firstName" -> b.firstName
                 [] f = "email" -> b.email
                 [] OTHER -> b.message
      IN  v = UNDEF \/ Trim(v) = <<>> }

(***************************************************************************)
(* Rate limiters (rateLimiter.js, CommonJS and ES-module variants).        *)
(* RateLimiterMemory is the in-memory limiter of rate-limiter-flexible: a  *)
(* record per key holds the consumed points and the expiry of the window.  *)
(***************************************************************************)
BLOCK_DURATION == 60 * 15

\* createRateLimiter(5, 60): CommonJS with blockDuration, ES module without.
messageLimiterCjs == [points |-> 5, duration |-> 60, blockDuration |-> BLOCK_DURATION]
messageLimiterEsm == [points |-> 5, duration |-> 60, blockDuration |-> 0]

\* The three middlewares built on a RateLimiterMemory.
Limiters ==
  { [kind |-> "cjs_specific", cfg |-> messageLimiterCjs],
    [kind |-> "esm_create", cfg |-> messageLimiterEsm],
    [kind |-> "esm_specific", cfg |-> messageLimiterEsm] }

NoLimiter == [kind |-> "none", cfg |-> messageLimiterEsm]

\* Math.ceil(ms / 1000)
CeilSec(ms) == (ms + 999) \div 1000

\* RateLimiterMemory.consume(key, 1) at time t: the record is incremented
\* while its window is open and restarted otherwise; the first consume beyond
\* the points blocks the key for blockDuration when one is configured.
\* ok = FALSE is the rejection with a RateLimiterRes (remainingPoints = 0).
Consume(cfg, store, key, t) ==
  LET live == key \in DOMAIN store /\ store[key].expiresAt - t > 0
      consumed == IF live THEN store[key].value + 1 ELSE 1
      expiresAt == IF live THEN store[key].expiresAt ELSE t + cfg.duration * 1000
      blocks == cfg.blockDuration > 0 /\ consumed <= cfg.points + 1
      blockedUntil == t + cfg.blockDuration * 1000
  IN  IF consumed > cfg.points
        THEN [ok |-> FALSE,
              msBeforeNext |-> IF blocks THEN cfg.blockDuration * 1000
                                         ELSE expiresAt - t,
              store |-> MapSet(store, key,
                          [value |-> consumed,
                           expiresAt |-> IF blocks THEN blockedUntil ELSE expiresAt])]
        ELSE [ok |-> TRUE, msBeforeNext |-> expiresAt - t,
              store |-> MapSet(store, key, [value |-> consumed, expiresAt |-> expiresAt])]

\* CommonJS specificRateLimiter(limiter): after a successful consume the
\* headers are built from the undeclared identifier `points`; the
\* ReferenceError is caught, logged and, carrying no remainingPoints, handed
\* to next(error).  A backend error takes the same catch branch.
SpecificRateLimiterCjs(cfg, store, key, t, backendError) ==
  LET c == Consume(cfg, store, key, t)
  IN  IF backendError
        THEN [out |-> "error", status |-> 500, retryAfter |-> ABSENT,
              logged |-> TRUE, store |-> store]
      ELSE IF c.ok
        THEN [out |-> "error", status |-> 500, retryAfter |-> ABSENT,
              logged |-> TRUE, store |-> c.store]
      ELSE [out |-> "limited", status |-> 429, retryAfter |-> CeilSec(c.msBeforeNext),
            logged |-> TRUE, store |-> c.store]

\* ES-module createRateLimiter(points, duration): any rejection is a bare 429.
CreateRateLimiterEsm(cfg, store, key, t, backendError) ==
  LET c == Consume(cfg, store, key, t)
  IN  IF backendError
        THEN [out |-> "limited", status |-> 429, retryAfter |-> ABSENT,
              logged |-> FALSE, store |-> store]
      ELSE IF c.ok
        THEN [out |-> "next", status |-> 0, retryAfter |-> ABSENT,
              logged |-> FALSE, store |-> c.store]
      ELSE [out |-> "limited", status |-> 429, retryAfter |-> ABSENT,
            logged |-> FALSE, store |-> c.store]

\* ES-module specificRateLimiter(limiter): any rejection is a 429 whose
\* retryAfter is Math.ceil(rejection.msBeforeNext / 1000).
SpecificRateLimiterEsm(cfg, store, key, t, backendError) ==
  LET c == Consume(cfg, store, key, t)
  IN  IF backendError
        THEN [out |-> "limited", status |-> 429, retryAfter |-> NAN,
              logged |-> FALSE, store |-> store]
      ELSE IF c.ok
        THEN [out |-> "next", status |-> 0, retryAfter |-> ABSENT,
              logged |-> FALSE, store |-> c.store]
      ELSE [out |-> "limited", status |-> 429, retryAfter |-> CeilSec(c.msBeforeNext),
            logged |-> FALSE, store |-> c.store]

RateLimit(lim, store, key, t, backendError) ==
  CASE lim.kind = "cjs_specific" -> SpecificRateLimiterCjs(lim.cfg, store, key, t, backendError)
    [] lim.kind = "esm_create" -> CreateRateLimiterEsm(lim.cfg, store, key, t, backendError)
    [] OTHER -> SpecificRateLimiterEsm(lim.cfg, store, key, t, backendError)

\* History: the fixed window of a client opens with its first request and
\* lasts `duration` seconds; n counts the requests the limiter counted in it.
WindowAfter(cfg, w, key, t, counted) ==
  LET open == key \in DOMAIN w /\ t < w[key].start + cfg.duration * 1000
  IN  IF ~counted THEN w
      ELSE IF open THEN MapSet(w, key, [start |-> w[key].start, n |-> w[key].n + 1])
      ELSE MapSet(w, key, [start |-> t, n |-> 1])

(***************************************************************************)
(* The guard on its own: requests, the clock and the expiry timers.        *)
(***************************************************************************)
InitGuard ==
  /\ variant \in Variants
  /\ now = 0
  /\ submissionHashes = <<>>
  /\ timers = {}
  /\ admits = <<>>
  /\ repeats = <<>>
  /\ req = NoReq
  /\ res = NoRes
  /\ nreq = 0
  /\ nticks = 0
  /\ pc = "idle"
  /\ ran = <<>>
  /\ saved = {}
  /\ notified = {}
  /\ inflight = {}
  /\ isProduction = FALSE
  /\ telegramConfigured = TRUE
  /\ messages = <<>>
  /\ removed = {}
  /\ db = NoDb
  /\ migrator = NoMigrator
  /\ sessions = <<>>
  /\ csrfTokens = <<>>
  /\ issued = <<>>
  /\ client = NoClient
  /\ limiter = NoLimiter
  /\ storage = <<>>
  /\ windows = <<>>

GuardRequest(r) ==
  LET g == duplicateSubmissionCheck(variant, r, submissionHashes, timers, now)
      hash == createSubmissionHash(r)
  IN  /\ nreq < MaxReqs
      /\ nreq' = nreq + 1
      /\ req' = r
      /\ submissionHashes' = g.store
      /\ timers' = g.timers
      /\ res' = [NoRes EXCEPT
                 !.stage = "guard", !.out = g.out, !.status = GuardStatus(g.out),
                 !.logged = g.out \in {"dup", "open"}, !.at = now,
                 !.prev = IF g.out \in {"next", "dup"}
                            THEN Lookup(admits, hash, -1) ELSE -1,
                 !.reps = IF g.out \in {"next", "dup"}
                            THEN Lookup(repeats, hash, 0) ELSE 0]
      /\ admits' = IF g.out = "next" THEN MapSet(admits, hash, now) ELSE admits
      /\ repeats' = CASE g.out = "next" -> MapSet(repeats, hash, 0)
                      [] g.out = "dup" ->
                           MapSet(repeats, hash, Lookup(repeats, hash, 0) + 1)
                      [] OTHER -> repeats
      /\ UNCHANGED <<variant, now, nticks>>
      /\ UNCHANGED limVars
      /\ UNCHANGED routeVars

\* The callback of setTimeout(() => submissionHashes.delete(hash), HASH_TTL):
\* it runs no earlier than its due time, and other callbacks may run first.
\* Callbacks armed for the same hash and due time do the same; of these the
\* one counted last is taken.
TimerFire(tm) ==
  /\ tm \in timers
  /\ now >= tm.due
  /\ \A other \in timers : (other.hash = tm.hash /\ other.due = tm.due) => other.n <= tm.n
  /\ timers' = timers \ {tm}
  /\ submissionHashes' = MapDelete(submissionHashes, tm.hash)
  /\ UNCHANGED <<variant, now, admits, repeats, req, res, nreq, nticks>>
  /\ UNCHANGED limVars
  /\ UNCHANGED routeVars

Deltas == {1, HASH_TTL}

Tick(d) ==
  /\ nticks < MaxTicks
  /\ nticks' = nticks + 1
  /\ now' = now + d
  /\ UNCHANGED <<variant, req, res, nreq>>
  /\ UNCHANGED guardVars
  /\ UNCHANGED limVars
  /\ UNCHANGED routeVars

NextGuard ==
  \/ \E r \in GuardRequests : GuardRequest(r)
  \/ \E tm \in timers : TimerFire(tm)
  \/ \E d \in Deltas : Tick(d)

SpecGuard == InitGuard /\ [][NextGuard]_vars

(***************************************************************************)
(* Properties of the duplicate guard.                                      *)
(***************************************************************************)
\* The guard looked at the store for the current request.
GuardChecked == res.stage = "guard" /\ res.out \in {"next", "dup"}

\* C2: the guard never admits a submission whose key (address, email,
\* subject, body) was admitted less than HASH_TTL earlier; such a repeat is
\* answered 429 and is not passed on.
C2_NoAdmitWithinTTL ==
  (GuardChecked /\ res.prev >= 0 /\ res.at - res.prev < HASH_TTL)
    => (res.out = "dup" /\ res.status = 429)

\* C27: the expiry timer scheduled with a recording removes only that
\* recording: when it fires while the store holds a newer recording of the
\* same hash (made after a lazy purge of the old one), the newer entry stays,
\* so a repeat inside the newer entry's TTL is still rejected.
C27_TimerRemovesOwnEntry ==
  [][\A tm \in timers :
       ( /\ timers' = timers \ {tm}
         /\ tm.hash \in DOMAIN submissionHashes
         /\ submissionHashes[tm.hash] > tm.due - HASH_TTL )
       => ( /\ tm.hash \in DOMAIN submissionHashes'
            /\ submissionHashes'[tm.hash] = submissionHashes[tm.hash] )]_vars

\* C3 as stated: once HASH_TTL has elapsed since the key was recorded by an
\* admitted submission, the next submission with that key is admitted.
C3_AdmitOnceTTLElapsed ==
  (GuardChecked /\ res.prev >= 0 /\ res.at - res.prev >= HASH_TTL)
    => res.out = "next"

\* C3 amended: once more than HASH_TTL has elapsed since the key was recorded
\* by an admitted submission, the next submission with that key is admitted,
\* however many repeats were rejected in between.
C3_AdmitAfterTTL ==
  (GuardChecked /\ res.prev >= 0 /\ res.at - res.prev > HASH_TTL)
    => (res.out = "next" /\ res.status = 0)

\* An admission later than the TTL after the previous one, with at least one
\* rejected repeat in between.
C3_Witness ==
  /\ GuardChecked /\ res.out = "next"
  /\ res.prev >= 0 /\ res.at - res.prev > HASH_TTL
  /\ res.reps >= 1

\* C10: when computing the hash throws (a request without a parsed body),
\* the guard logs the error and passes the request on; no error is answered.
C10_GuardFailsOpen ==
  (res.stage = "guard" /\ ~GuardSkips(variant, req) /\ HashThrows(req))
    => (res.out = "open" /\ res.logged /\ res.status = 0)

(***************************************************************************)
(* The limiters on their own.                                              *)
(***************************************************************************)
InitLimiter ==
  /\ limiter \in Limiters
  /\ variant = IF limiter.kind = "cjs_specific" THEN "cjs" ELSE "esm"
  /\ now = 0
  /\ storage = <<>>
  /\ windows = <<>>
  /\ submissionHashes = <<>>
  /\ timers = {}
  /\ admits = <<>>
  /\ repeats = <<>>
  /\ req = NoReq
  /\ res = NoRes
  /\ nreq = 0
  /\ nticks = 0
  /\ pc = "idle"
  /\ ran = <<>>
  /\ saved = {}
  /\ notified = {}
  /\ inflight = {}
  /\ isProduction = FALSE
  /\ telegramConfigured = TRUE
  /\ messages = <<>>
  /\ removed = {}
  /\ db = NoDb
  /\ migrator = NoMigrator
  /\ sessions = <<>>
  /\ csrfTokens = <<>>
  /\ issued = <<>>
  /\ client = NoClient

LimiterRequest(ip, backendError) ==
  LET l == RateLimit(limiter, storage, ip, now, backendError)
      w == WindowAfter(limiter.cfg, windows, ip, now, ~backendError)
  IN  /\ nreq < MaxLimReqs
      /\ nreq' = nreq + 1
      /\ req' = [method |-> "POST", ip |-> ip, backendError |-> backendError]
      /\ storage' = l.store
      /\ windows' = w
      /\ res' = [NoRes EXCEPT
                   !.stage = "limiter", !.out = l.out, !.status = l.status,
                   !.retryAfter = l.retryAfter, !.logged = l.logged, !.at = now,
                   !.nth = IF backendError THEN 0 ELSE w[ip].n,
                   !.left = IF backendError THEN 0
                            ELSE w[ip].start + limiter.cfg.duration * 1000 - now]
      /\ UNCHANGED <<variant, now, limiter, nticks>>
      /\ UNCHANGED guardVars
      /\ UNCHANGED routeVars

LimDeltas == {1, 60 * 1000}

LimiterTick(d) ==
  /\ nticks < MaxLimTicks
  /\ nticks' = nticks + 1
  /\ now' = now + d
  /\ UNCHANGED <<variant, req, res, nreq>>
  /\ UNCHANGED guardVars
  /\ UNCHANGED limVars
  /\ UNCHANGED routeVars

NextLimiter ==
  \/ \E ip \in IPs, e \in BOOLEAN : LimiterRequest(ip, e)
  \/ \E d \in LimDeltas : LimiterTick(d)

SpecLimiter == InitLimiter /\ [][NextLimiter]_vars

(***************************************************************************)
(* Properties of the rate limiters.                                        *)
(***************************************************************************)
\* The limiter counted the current request against its client's window.
LimiterCounted == res.stage = "limiter" /\ ~req.backendError

\* C7: the first N requests of a client inside one window of a limiter with
\* N points are passed to the next handler, and the (N+1)-th is answered 429.
C7_FirstNPass ==
  /\ (LimiterCounted /\ res.nth <= limiter.cfg.points)
       => (res.out = "next" /\ res.status = 0)
  /\ (LimiterCounted /\ res.nth = limiter.cfg.points + 1) => res.status = 429

\* C8: every 429 of a rate limiter carries a retry-after equal to the time
\* left in the client's current window, so at most the window size.
C8_RetryAfterWithinWindow ==
  (LimiterCounted /\ res.status = 429)
    => /\ res.retryAfter >= 0
       /\ res.retryAfter <= limiter.cfg.duration
       /\ res.retryAfter = CeilSec(res.left)

\* C9: a backend error other than limit-exceeded is logged and the request is
\* passed to the next handler; it is answered neither 429 nor 5xx.
C9_LimiterFailsOpen ==
  (res.stage = "limiter" /\ req.backendError)
    => (res.out = "next" /\ res.status = 0 /\ res.logged)

(***************************************************************************)
(* Controllers.  Each operator is one run of the handler on body b, with   *)
(* dbOk / tgOk telling whether the save and the Telegram call succeed.  It *)
(* yields the steps taken, the step that answered, the answer, and whether *)
(* the record was saved and the notification delivered.                    *)
(***************************************************************************)
Answer(steps, status, success, errors, save, notify, withId) ==
  [steps |-> steps, status |-> status, success |-> success, errors |-> errors,
   save |-> save, notify |-> notify, withId |-> withId]

\* MessageController.createMessage, ES module: honeypot, normalize, Joi,
\* save; any exception is answered 500.
createMessageEsm(b, dbOk, tgOk) ==
  LET errs == validateContactForm(normalizeMessageData(b))
  IN  IF Truthy(b.website)
        THEN Answer(<<"honeypot">>, 200, TRUE, {}, FALSE, FALSE, FALSE)
      ELSE IF errs # {}
        THEN Answer(<<"honeypot", "validator">>, 400, FALSE, errs, FALSE, FALSE, FALSE)
      ELSE IF dbOk
        THEN Answer(<<"honeypot", "validator", "delivery">>, 201, TRUE, {}, TRUE, FALSE, TRUE)
      ELSE Answer(<<"honeypot", "validator", "delivery">>, 500, FALSE, {}, FALSE, FALSE, FALSE)

\* The CommonJS controller with the notification dispatched before the
\* save is awaited (mutation of createMessageCjs, defined next).
createMessageCjsNotifyFirst(b, dbOk, tgOk) ==
  LET errs == validateInputCjs(b)
  IN  IF Truthy(b.website)
        THEN Answer(<<"honeypot">>, 200, TRUE, {}, FALSE, FALSE, FALSE)
      ELSE IF errs # {}
        THEN Answer(<<"honeypot", "validator">>, 400, FALSE, errs, FALSE, FALSE, FALSE)
      ELSE IF serviceRequiredMissing(b)
        THEN Answer(<<"honeypot", "validator", "delivery">>, 500, FALSE, {}, FALSE, FALSE, FALSE)
      ELSE IF ~dbOk
        THEN Answer(<<"honeypot", "validator", "delivery">>, 500, FALSE, {}, FALSE, tgOk, FALSE)
      ELSE Answer(<<"honeypot", "validator", "delivery">>, 201, TRUE, {}, TRUE, tgOk, TRUE)

\* MessageController.createMessage, CommonJS: honeypot, #validateInput,
\* MessageService.createMessage (required fields, save, then the Telegram
\* notification, whose failure is only logged); exceptions go to next(error).
createMessageCjs(b, dbOk, tgOk) ==
  LET errs == validateInputCjs(b)
  IN  IF Truthy(b.website)
        THEN Answer(<<"honeypot">>, 200, TRUE, {}, FALSE, FALSE, FALSE)
      ELSE IF errs # {}
        THEN Answer(<<"honeypot", "validator">>, 400, FALSE, errs, FALSE, FALSE, FALSE)
      ELSE IF serviceRequiredMissing(b) \/ ~dbOk
        THEN Answer(<<"honeypot", "validator", "delivery">>, 500, FALSE, {}, FALSE, FALSE, FALSE)
      ELSE Answer(<<"honeypot", "validator", "delivery">>, 201, TRUE, {}, TRUE, tgOk, TRUE)

\* FormController.submitForm: honeypot, required fields (answered with one
\* message that lists them, without an errors array), Telegram.
submitForm(b, dbOk, tgOk) ==
  IF Truthy(b.website)
    THEN Answer(<<"honeypot">>, 200, TRUE, {}, FALSE, FALSE, FALSE)
  ELSE IF missingFieldsForm(b) # {}
    THEN Answer(<<"honeypot", "validator">>, 400, FALSE, {}, FALSE, FALSE, FALSE)
  ELSE IF tgOk
    THEN Answer(<<"honeypot", "validator", "delivery">>, 200, TRUE, {}, FALSE, TRUE, FALSE)
  ELSE Answer(<<"honeypot", "validator", "delivery">>, 500, FALSE, {}, FALSE, FALSE, FALSE)

\* app.post('/api/messages') of the Telegram relay server: honeypot, required
\* fields (one message, no errors array), then the Telegram call.  A missing
\* bot configuration (TELEGRAM_BOT_TOKEN or TELEGRAM_CHAT_ID) is answered
\* without a call, a failed call after it; both 500 in production and
\* accepted with a logged warning otherwise.
relayMessages(b, production, configured, tgOk) ==
  IF Truthy(b.website)
    THEN Answer(<<"honeypot">>, 200, TRUE, {}, FALSE, FALSE, FALSE)
  ELSE IF ~Truthy(b.name) \/ ~Truthy(b.email) \/ ~Truthy(b.message)
    THEN Answer(<<"honeypot", "validator">>, 400, FALSE, {}, FALSE, FALSE, FALSE)
  ELSE IF ~configured
    THEN IF production
           THEN Answer(<<"honeypot", "validator", "delivery">>, 500, FALSE, {}, FALSE, FALSE, FALSE)
           ELSE Answer(<<"honeypot", "validator", "delivery">>, 200, TRUE, {}, FALSE, FALSE, FALSE)
  ELSE IF tgOk
    THEN Answer(<<"honeypot", "validator", "delivery">>, 200, TRUE, {}, FALSE, TRUE, FALSE)
  ELSE IF production
    THEN Answer(<<"honeypot", "validator", "delivery">>, 500, FALSE, {}, FALSE, FALSE, FALSE)
  ELSE Answer(<<"honeypot", "validator", "delivery">>, 200, TRUE, {}, FALSE, FALSE, FALSE)

Controller(v, b, production, configured, dbOk, tgOk) ==
  CASE v = "esm" -> createMessageEsm(b, dbOk, tgOk)
    [] v = "cjs" -> createMessageCjs(b, dbOk, tgOk)
    [] v = "relay" -> relayMessages(b, production, configured, tgOk)
    [] OTHER -> submitForm(b, dbOk, tgOk)

\* The token test without the comparison with the session's token (mutation
\* of csrfProtection, defined next).
csrfProtectionAnyToken(token, sessionToken) ==
  Truthy(token) /\ Truthy(sessionToken)

\* csrfProtection on a state-changing request: the presented token must be
\* present and equal to the token of the request's session (the tokens of the
\* model are unexpired).
csrfProtection(token, sessionToken) ==
  Truthy(token) /\ Truthy(sessionToken) /\ token = sessionToken

(***************************************************************************)
(* The general limiters (express-rate-limit): apiLimiter of rateLimiter.js,*)
(* mounted by app.use(apiLimiter) in front of every route of app.js, and   *)
(* the limiter of src/server/index.js, mounted the same way without skip.  *)
(* The memory store (windows) counts the hits of a client in a window of   *)
(* windowMs from its first hit; a request is rejected when the count       *)
(* exceeds max.                                                            *)
(***************************************************************************)
\* The maximum of the limiter of src/server/index.js comes from the
\* environment (config.RATE_LIMIT_MAX); the model runs with a small one.
ApiMax == 2
MaxApiReqs == 6
MaxApiTicks == 2

API_WINDOW_MS == 15 * 60 * 1000

\* apiLimiter is built with max: config.rateLimit.maxRequests, a key that
\* config.js does not define (it defines rateLimit.max): the option is
\* undefined whatever the environment holds.  A release of express-rate-limit
\* that drops undefined options then runs with its default maximum; one that
\* keeps them tests `max && current > max` and never rejects.  Which release
\* is installed the repository does not say.
LIBRARY_MAX == 5
NO_MAX == 0
ApiMaxima == {LIBRARY_MAX, NO_MAX}

ApiPaths == {"/health", "/healthz", "/health/stats", "/api/health", "/api/messages"}

\* skip: (req) => req.path === '/health' || req.path === '/healthz'
apiLimiterSkip(path) == path = "/health" \/ path = "/healthz"

apiLimiter(max) ==
  [kind |-> "apiLimiter", cfg |-> [points |-> max, duration |-> API_WINDOW_MS \div 1000,
                                   blockDuration |-> 0]]

ApiLimiters ==
  { apiLimiter(max) : max \in ApiMaxima }
  \cup
  { [kind |-> "indexLimiter", cfg |-> [points |-> ApiMax, duration |-> API_WINDOW_MS \div 1000,
                                       blockDuration |-> 0]] }

\* One pass of a request through a general limiter: skipped, counted and
\* passed on, or counted and answered 429 by the handler.
rateLimit(lim, store, key, path, t) ==
  LET live == key \in DOMAIN store /\ t < store[key].expire
      hits == IF live THEN store[key].points + 1 ELSE 1
      exp == IF live THEN store[key].expire ELSE t + lim.cfg.duration * 1000
      st == MapSet(store, key, [points |-> hits, expire |-> exp, blocked |-> FALSE])
  IN  IF lim.kind = "apiLimiter" /\ apiLimiterSkip(path)
        THEN [out |-> "skip", status |-> 0, store |-> store, hits |-> 0]
      ELSE IF lim.cfg.points # NO_MAX /\ hits > lim.cfg.points
        THEN [out |-> "limit", status |-> 429, store |-> st, hits |-> hits]
      ELSE [out |-> "next", status |-> 0, store |-> st, hits |-> hits]

(***************************************************************************)
(* Intake: one request at a time runs through the middleware chain of its  *)
(* variant.  entry is the layer the request is handed to: the application  *)
(* (app.js, CommonJS; the ES-module app), the message router (mounted      *)
(* directly by the root server.js) or the controller method.  The          *)
(* duplicate guard is mounted by none of the applications.                 *)
(***************************************************************************)
AllVariants == {"cjs", "esm", "form", "relay"}

Entries(v) == IF v \in {"form", "relay"} THEN {"controller"} ELSE {"app", "router", "controller"}

Names == {UNDEF, <<"A","d","a"," ","L","o">>}
FirstNames == {UNDEF, <<"A","d","a">>}
LastNames == {UNDEF, <<"L","o">>}
IntakeEmails == {UNDEF, <<"a","@","b",".","c","o">>}
Phones == {UNDEF}
IntakeSubjects == {<<"H","i">>}
Messages == {UNDEF, <<"h","e","l","l","o"," ","w","o","r","l","d">>}
Websites == {UNDEF, <<"x">>}
Consents == {<<"o","n">>}
Honeypots == {UNDEF, <<"x">>}
Tokens0 == {UNDEF, <<"t">>}
SessionToken == <<"t">>

\* The bodies of the exploration: the sender's name comes as one name field
\* or as first and last name.
IntakeBodies ==
  { b \in
      [name : Names, firstName : FirstNames, lastName : LastNames, email : IntakeEmails,
       phone : Phones, subject : IntakeSubjects, message : Messages, content : {UNDEF},
       website : Websites, honeypot : Honeypots, privacyPolicyAccepted : Consents] :
      b.name = UNDEF \/ (b.firstName = UNDEF /\ b.lastName = UNDEF) }

\* The relay reads the name field only and the form controller the first
\* name only; a request stopped by a CSRF gate has its body read by nobody.
BodyRead(v, entry, token, b) ==
  /\ v = "relay" => (b.firstName = UNDEF /\ b.lastName = UNDEF)
  /\ v = "form" => (b.name = UNDEF /\ b.lastName = UNDEF)
  /\ (v = "esm" /\ entry # "controller" /\ token # SessionToken) =>
        \A f \in {"name", "firstName", "lastName", "email", "message", "website", "honeypot"} :
          b[f] = UNDEF

\* Only the schema of the ES-module route reads the honeypot field.
IntakeHoneypots(v, entry) ==
  IF v = "esm" /\ entry # "controller" THEN Honeypots ELSE {UNDEF}

\* Only the CSRF gates of the ES-module chains read the token.
IntakeTokens(v, entry) ==
  IF v = "esm" /\ entry # "controller" THEN Tokens0 ELSE {SessionToken}

IntakeRequests(v) ==
  { [method |-> "POST", id |-> 0, ip |-> <<"1">>, entry |-> x[1][1], csrfToken |-> x[1][2],
     sessionToken |-> SessionToken, body |-> x[2], submitted |-> x[2]] :
      x \in { y \in (Entries(v) \X Tokens0) \X IntakeBodies :
                /\ y[1][2] \in IntakeTokens(v, y[1][1])
                /\ y[2].honeypot \in IntakeHoneypots(v, y[1][1])
                /\ BodyRead(v, y[1][1], y[1][2], y[2]) } }

\* The hits the general limiter has counted for the client when the model
\* starts: none, or requests to other routes that used up a maximum of
\* LIBRARY_MAX in the window that is open.
EarlierHits ==
  { <<>>, [ip \in {<<"1">>} |-> [points |-> LIBRARY_MAX, expire |-> API_WINDOW_MS,
                                 blocked |-> FALSE]] }

\* The first middleware a request meets.
FirstStage(v, entry) ==
  CASE entry = "controller" -> "controller"
    [] entry = "router" /\ v = "esm" -> "csrf"
    [] entry = "router" /\ v = "cjs" -> "validate"
    [] entry = "app" /\ v = "esm" -> "csrfApp"
    [] OTHER -> "apiLimiter"

Init ==
  /\ variant \in AllVariants
  /\ now = 0
  /\ submissionHashes = <<>>
  /\ timers = {}
  /\ admits = <<>>
  /\ repeats = <<>>
  /\ \E max \in ApiMaxima :
       /\ variant # "cjs" => max = NO_MAX
       /\ limiter = [kind |-> "cjs_specific", cfg |-> messageLimiterCjs,
                     api |-> apiLimiter(max)]
  /\ storage = <<>>
  /\ windows \in IF variant = "cjs" THEN EarlierHits ELSE {<<>>}
  /\ pc = "idle"
  /\ ran = <<>>
  /\ saved = {}
  /\ notified = {}
  /\ inflight = {}
  /\ isProduction \in BOOLEAN
  /\ telegramConfigured \in (IF variant = "relay" THEN BOOLEAN ELSE {TRUE})
  /\ messages = <<>>
  /\ removed = {}
  /\ db = NoDb
  /\ migrator = NoMigrator
  /\ sessions = <<>>
  /\ csrfTokens = <<>>
  /\ issued = <<>>
  /\ client = NoClient
  /\ req = NoReq
  /\ res = NoRes
  /\ nreq = 0
  /\ nticks = 0

\* A request arrives when no handler is running: none was started, the last
\* one has answered, or the last one is waiting for its save or its
\* Telegram call.  req, res and ran show the request whose handler took the
\* latest step; handlers that wait are kept in inflight.
Arrive(r) ==
  /\ pc \in {"idle", "done", "waiting"}
  /\ nreq < MaxIntake
  /\ nreq' = nreq + 1
  /\ req' = [r EXCEPT !.id = nreq + 1]
  /\ res' = NoRes
  /\ ran' = <<>>
  /\ pc' = FirstStage(variant, r.entry)
  /\ UNCHANGED <<variant, now, nticks, saved, notified, inflight, isProduction, telegramConfigured, messages, removed, db, migrator, client>>
  /\ UNCHANGED csrfVars
  /\ UNCHANGED guardVars
  /\ UNCHANGED limVars

\* app.use(apiLimiter) of app.js: every request of the CommonJS application
\* is counted by the general limiter first.
StageApiLimiter ==
  LET l == rateLimit(limiter.api, windows, req.ip, "/api/messages", now)
  IN  /\ pc = "apiLimiter"
      /\ windows' = l.store
      /\ ran' = Append(ran, "apiLimiter")
      /\ IF l.out = "next"
           THEN pc' = "limiter" /\ res' = res
           ELSE /\ pc' = "done"
                /\ res' = [NoRes EXCEPT !.stage = "apiLimiter", !.out = l.out,
                             !.status = l.status, !.logged = TRUE, !.at = now]
      /\ UNCHANGED <<variant, now, nticks, limiter, storage, saved, notified, inflight, isProduction, telegramConfigured,
                     messages, removed, db, migrator, client, req, nreq>>
      /\ UNCHANGED csrfVars
      /\ UNCHANGED guardVars

\* app.use('/api/messages', messageLimiter, messageRoutes) of app.js.
StageLimiter ==
  LET l == RateLimit(limiter, storage, req.ip, now, FALSE)
  IN  /\ pc = "limiter"
      /\ storage' = l.store
      /\ ran' = Append(ran, "limiter")
      /\ IF l.out = "next"
           THEN pc' = "validate" /\ res' = res
           ELSE /\ pc' = "done"
                /\ res' = [NoRes EXCEPT !.stage = "limiter", !.out = l.out,
                             !.status = l.status, !.retryAfter = l.retryAfter,
                             !.logged = l.logged, !.at = now]
      /\ UNCHANGED <<variant, now, nticks, limiter, windows, saved, notified, inflight, isProduction, telegramConfigured, messages, removed, db, migrator, client, req, nreq>>
      /\ UNCHANGED csrfVars
      /\ UNCHANGED guardVars

\* The CSRF gates: app.use(...) of the ES-module app, then router.use(...)
\* of message.routes.js.
StageCsrf ==
  /\ pc \in {"csrfApp", "csrf"}
  /\ ran' = Append(ran, "csrf")
  /\ IF csrfProtection(req.csrfToken, req.sessionToken)
       THEN pc' = (IF pc = "csrfApp" THEN "csrf" ELSE "validate") /\ res' = res
       ELSE /\ pc' = "done"
            /\ res' = [NoRes EXCEPT !.stage = "csrf", !.out = "forbidden",
                         !.status = 403, !.logged = TRUE, !.at = now]
  /\ UNCHANGED <<variant, now, nticks, saved, notified, inflight, isProduction, telegramConfigured, messages, removed, db, migrator, client, req, nreq>>
  /\ UNCHANGED csrfVars
  /\ UNCHANGED guardVars
  /\ UNCHANGED limVars

\* The validation middleware of the route.  ES module:
\* validate(createMessageSchema).  CommonJS: messageValidation.createMessage,
\* whose rule list holds the undefined commonRules.name, so validation.run
\* throws inside the async middleware: the rejection is unhandled and no
\* answer is written, or it reaches the error handler (500), depending on
\* the Express version.  The rule in front of it has no sanitizer, so the
\* body stays as it was.  validate() of the ES-module route awaits the run
\* of all its chains, each of which writes its sanitized value into
\* req.body, and answers 400 or calls next() after the last one; nothing
\* else of the server runs in between.
StageValidate(crash) ==
  LET errs == createMessageSchema(req.body)
  IN  /\ pc = "validate"
      /\ ran' = Append(ran, "validate")
      /\ IF variant = "cjs"
           THEN /\ pc' = "done"
                /\ res' = [NoRes EXCEPT !.stage = "validate", !.out = crash,
                             !.status = IF crash = "error" THEN 500 ELSE 0,
                             !.at = now]
                /\ req' = req
           ELSE /\ crash = "error"
                /\ req' = [req EXCEPT !.body = sanitizeBody(@)]
                /\ IF errs = {}
                     THEN pc' = "controller" /\ res' = res
                     ELSE /\ pc' = "done"
                          /\ res' = [NoRes EXCEPT !.stage = "validate",
                                       !.out = "invalid", !.status = 400,
                                       !.errors = errs, !.at = now]
      /\ UNCHANGED <<variant, now, nticks, saved, notified, inflight, isProduction, telegramConfigured, messages, removed, db, migrator, client, nreq>>
      /\ UNCHANGED csrfVars
      /\ UNCHANGED guardVars
      /\ UNCHANGED limVars

\* The handler waits for I/O (the save, or the Telegram call of the relay
\* and of the form controller) when its checks pass.
Awaits(v, b, production, configured) ==
  LET a == Controller(v, b, production, configured, TRUE, TRUE)
  IN  a.save \/ a.notify

\* The handler up to its first await.  A filled honeypot, failed checks,
\* (CommonJS) fields the service requires and (relay) a submission while the
\* bot is not configured are answered here; otherwise the
\* handler starts the save or the Telegram call and returns to the event
\* loop.
StageController ==
  LET a == Controller(variant, req.body, isProduction, telegramConfigured, TRUE, TRUE)
  IN  /\ pc = "controller"
      /\ ran' = ran \o a.steps
      /\ IF Awaits(variant, req.body, isProduction, telegramConfigured)
           THEN /\ pc' = "waiting"
                /\ res' = res
                /\ inflight' = inflight \cup
                     {[req |-> req, ran |-> ran \o a.steps, res |-> NoRes,
                       wait |-> IF variant \in {"cjs", "esm"} THEN "save" ELSE "telegram"]}
           ELSE /\ pc' = "done"
                /\ res' = [NoRes EXCEPT !.stage = a.steps[Len(a.steps)], !.out = "answered",
                             !.status = a.status, !.success = a.success,
                             !.errors = a.errors, !.at = now,
                             !.tgOk = ~(variant = "relay" /\ a.steps[Len(a.steps)] = "delivery"),
                             !.id = IF a.withId THEN req.id ELSE 0]
                /\ inflight' = inflight
      /\ UNCHANGED <<variant, now, nticks, saved, notified, isProduction, telegramConfigured, messages, removed, db, migrator, client, req, nreq>>
      /\ UNCHANGED csrfVars
      /\ UNCHANGED guardVars
      /\ UNCHANGED limVars

\* The awaited call settles with the record lost on the way to the store
\* (mutation of StageSettle, defined next).
StageSettleLost(h, dbOk, tgOk) ==
  LET a == Controller(variant, h.req.body, isProduction, telegramConfigured, dbOk, tgOk)
      answer == [NoRes EXCEPT !.stage = a.steps[Len(a.steps)], !.out = "answered",
                   !.status = a.status, !.success = a.success,
                   !.errors = a.errors, !.at = now,
                   !.dbOk = dbOk,
                   !.tgOk = IF variant = "cjs" THEN TRUE ELSE tgOk,
                   !.id = IF a.withId THEN h.req.id ELSE 0]
      dispatch == variant = "cjs"
                    /\ Controller(variant, h.req.body, isProduction, telegramConfigured, dbOk, TRUE).notify
  IN  /\ pc \in {"done", "waiting"}
      /\ h.wait \in {"save", "telegram"}
      /\ pc' = "done"
      /\ req' = h.req
      /\ ran' = h.ran
      /\ res' = answer
      /\ saved' = saved
      /\ notified' = IF variant # "cjs" /\ a.notify THEN notified \cup {h.req.id} ELSE notified
      /\ inflight' = (inflight \ {h}) \cup
           (IF dispatch THEN {[h EXCEPT !.wait = "notification", !.res = answer]} ELSE {})
      /\ UNCHANGED <<variant, now, nticks, isProduction, telegramConfigured, messages, removed, db, migrator, client, nreq>>
      /\ UNCHANGED csrfVars
      /\ UNCHANGED guardVars
      /\ UNCHANGED limVars

\* The awaited call of a waiting handler settles and the handler runs to its
\* answer.  ES module: the save; the record's id goes into the 201.
\* CommonJS: the save of MessageService.createMessage; when it succeeded the
\* service starts _sendNotification without awaiting it and the controller
\* answers 201 while the Telegram call is under way.  Relay and form
\* controller: the Telegram call, awaited before the answer.
StageSettle(h, dbOk, tgOk) ==
  LET a == Controller(variant, h.req.body, isProduction, telegramConfigured, dbOk, tgOk)
      answer == [NoRes EXCEPT !.stage = a.steps[Len(a.steps)], !.out = "answered",
                   !.status = a.status, !.success = a.success,
                   !.errors = a.errors, !.at = now,
                   !.dbOk = dbOk,
                   !.tgOk = IF variant = "cjs" THEN TRUE ELSE tgOk,
                   !.id = IF a.withId THEN h.req.id ELSE 0]
      dispatch == variant = "cjs"
                    /\ Controller(variant, h.req.body, isProduction, telegramConfigured, dbOk, TRUE).notify
  IN  /\ pc \in {"done", "waiting"}
      /\ h.wait \in {"save", "telegram"}
      /\ pc' = "done"
      /\ req' = h.req
      /\ ran' = h.ran
      /\ res' = answer
      /\ saved' = IF a.save THEN saved \cup {h.req.id} ELSE saved
      /\ notified' = IF variant # "cjs" /\ a.notify THEN notified \cup {h.req.id} ELSE notified
      /\ inflight' = (inflight \ {h}) \cup
           (IF dispatch THEN {[h EXCEPT !.wait = "notification", !.res = answer]} ELSE {})
      /\ UNCHANGED <<variant, now, nticks, isProduction, telegramConfigured, messages, removed, db, migrator, client, nreq>>
      /\ UNCHANGED csrfVars
      /\ UNCHANGED guardVars
      /\ UNCHANGED limVars

\* The Telegram call that MessageService.createMessage left running settles:
\* the notification is delivered, or its failure is logged by the catch of
\* the service.  The request was answered before.
NotificationSettles(h, tgOk) ==
  /\ pc \in {"done", "waiting"}
  /\ h.wait = "notification"
  /\ pc' = "done"
  /\ req' = h.req
  /\ ran' = h.ran
  /\ res' = [h.res EXCEPT !.tgOk = tgOk]
  /\ notified' = IF tgOk THEN notified \cup {h.req.id} ELSE notified
  /\ inflight' = inflight \ {h}
  /\ UNCHANGED <<variant, now, nticks, saved, isProduction, telegramConfigured, messages, removed, db, migrator, client, nreq>>
  /\ UNCHANGED csrfVars
  /\ UNCHANGED guardVars
  /\ UNCHANGED limVars

Next ==
  \/ \E r \in IntakeRequests(variant) : Arrive(r)
  \/ StageApiLimiter
  \/ StageLimiter
  \/ StageCsrf
  \/ \E crash \in {"hang", "error"} : StageValidate(crash)
  \/ StageController
  \/ \E h \in inflight, dbOk \in BOOLEAN, tgOk \in BOOLEAN : StageSettle(h, dbOk, tgOk)
  \/ \E h \in inflight, tgOk \in BOOLEAN : NotificationSettles(h, tgOk)

Spec == Init /\ [][Next]_vars

(***************************************************************************)
(* Properties of the intake.                                               *)
(***************************************************************************)
Done == pc = "done"

\* The request got past the gates in front of the intake endpoint.
ReachedIntake == Done /\ res.stage \notin {"apiLimiter", "limiter", "csrf"}

Delivered == req.id \in saved \cup notified

\* A validator found errors: the route's validate(), or the validation step
\* of the controller.
ValidatorRejected ==
  /\ Done
  /\ \/ res.stage = "validate" /\ res.out = "invalid"
     \/ res.stage = "validator"

\* The body breaks a rule of one of the checks on its way: the route's schema
\* when it enters above the controller, and the controller's own checks.
FailsValidation(v, entry, b) ==
  CASE v = "esm" /\ entry # "controller" ->
         createMessageSchema(b) # {}
           \/ validateContactForm(normalizeMessageData(sanitizeBody(b))) # {}
    [] v = "esm" -> validateContactForm(normalizeMessageData(b)) # {}
    [] v = "cjs" -> validateInputCjs(b) # {} \/ serviceRequiredMissing(b)
    [] v = "relay" -> ~Truthy(b.name) \/ ~Truthy(b.email) \/ ~Truthy(b.message)
    [] OTHER -> missingFieldsForm(b) # {}

\* C1: a POST to the intake endpoint with a non-empty honeypot field
\* (website) is neither persisted nor notified, whatever its other fields,
\* and is answered 200 with success = true.
C1_HoneypotDropped ==
  (ReachedIntake /\ Truthy(req.submitted.website)) =>
    (~Delivered /\ res.status = 200 /\ res.success)

\* C4: a submission that fails validation (a check of the variant it is
\* sent to, on its way from its entry) is never persisted and never sent to
\* the notification sink, and the request ends with HTTP 400.
C4_InvalidNeverDelivered ==
  (ReachedIntake /\ ~Truthy(req.submitted.website)
     /\ FailsValidation(variant, req.entry, req.submitted)) =>
    (~Delivered /\ res.status = 400)

RequiredFields == {"firstName", "email", "message"}

Field(b, f) ==
  CASE f = "firstName" -> b.firstName
    [] f = "email" -> b.email
    [] OTHER -> b.message

\* C5: the 400 of a failed validation holds one error entry per failing
\* field, each tagged with the field's name; every missing required field
\* has its entry.
C5_PerFieldErrors ==
  ValidatorRejected =>
    /\ res.errors # {}
    /\ \A e \in res.errors : e.tagged
    /\ \A e1, e2 \in res.errors : e1.field = e2.field => e1 = e2
    /\ \A f \in RequiredFields :
         Field(req.submitted, f) = UNDEF => \E e \in res.errors : e.field = f

\* The place of a stage in the order rate limiter, honeypot check,
\* duplicate guard, validator, delivery (the CSRF gate and the general
\* limiter of the application are none of them).
Rank(stage) ==
  CASE stage = "limiter" -> 1
    [] stage = "honeypot" -> 2
    [] stage = "guard" -> 3
    [] stage \in {"validate", "validator"} -> 4
    [] stage = "delivery" -> 5
    [] OTHER -> 0

Stages == SelectSeq(ran, LAMBDA st : Rank(st) > 0)

\* C6: a request passes the stages in the order rate limiter, honeypot
\* check, duplicate guard, validator, delivery; the first stage that rejects
\* answers and no later one runs; a filled honeypot with invalid fields is
\* answered by the honeypot stage.
C6_StageOrder ==
  Done =>
    /\ \A i, j \in 1..Len(Stages) : i < j => Rank(Stages[i]) < Rank(Stages[j])
    /\ (req.entry # "controller" /\ Delivered) =>
         \A k \in 1..5 : \E i \in 1..Len(Stages) : Rank(Stages[i]) = k
    /\ (ReachedIntake /\ Truthy(req.submitted.website)) => res.stage = "honeypot"

(***************************************************************************)
(* A general limiter on its own: requests to the paths of the application  *)
(* and the clock.                                                          *)
(***************************************************************************)
InitApi ==
  /\ limiter \in ApiLimiters
  /\ variant \in Variants
  /\ now = 0
  /\ storage = <<>>
  /\ windows = <<>>
  /\ submissionHashes = <<>>
  /\ timers = {}
  /\ admits = <<>>
  /\ repeats = <<>>
  /\ req = NoReq
  /\ res = NoRes
  /\ nreq = 0
  /\ nticks = 0
  /\ pc = "idle"
  /\ ran = <<>>
  /\ saved = {}
  /\ notified = {}
  /\ inflight = {}
  /\ isProduction = FALSE
  /\ telegramConfigured = TRUE
  /\ messages = <<>>
  /\ removed = {}
  /\ db = NoDb
  /\ migrator = NoMigrator
  /\ sessions = <<>>
  /\ csrfTokens = <<>>
  /\ issued = <<>>
  /\ client = NoClient

ApiRequest(ip, path) ==
  LET l == rateLimit(limiter, windows, ip, path, now)
  IN  /\ nreq < MaxApiReqs
      /\ nreq' = nreq + 1
      /\ req' = [method |-> "GET", ip |-> ip, path |-> path]
      /\ windows' = l.store
      /\ res' = [NoRes EXCEPT !.stage = "api", !.out = l.out, !.status = l.status,
                   !.logged = (l.out = "limit" /\ limiter.kind = "apiLimiter"),
                   !.at = now, !.nth = l.hits]
      /\ UNCHANGED <<variant, now, limiter, storage, nticks>>
      /\ UNCHANGED guardVars
      /\ UNCHANGED routeVars

ApiDeltas == {1, API_WINDOW_MS}

ApiTick(d) ==
  /\ nticks < MaxApiTicks
  /\ nticks' = nticks + 1
  /\ now' = now + d
  /\ UNCHANGED <<variant, req, res, nreq>>
  /\ UNCHANGED guardVars
  /\ UNCHANGED limVars
  /\ UNCHANGED routeVars

NextApi ==
  \/ \E ip \in IPs, path \in ApiPaths : ApiRequest(ip, path)
  \/ \E d \in ApiDeltas : ApiTick(d)

SpecApi == InitApi /\ [][NextApi]_vars

\* The health and readiness endpoints: /health and its sub-paths, and
\* /api/health.
HealthPaths == {"/health", "/healthz", "/health/stats", "/api/health"}

\* C11: a request to a health or readiness endpoint is never counted
\* against and never rejected by a rate limiter.
C11_HealthExempt ==
  (res.stage = "api" /\ req.path \in HealthPaths) =>
    (res.out = "skip" /\ res.status # 429)

(***************************************************************************)
(* Properties of the delivery.                                             *)
(***************************************************************************)
\* The variants that persist the record (the others only notify).
Persisting == {"cjs", "esm"}

\* The current request passed the validators and reached the sinks.
ReachedDelivery == Done /\ res.stage = "delivery"

\* The save of the current request was attempted and failed.
SaveFailed ==
  /\ ReachedDelivery
  /\ variant \in Persisting
  /\ ~res.dbOk
  /\ variant = "cjs" => ~serviceRequiredMissing(req.submitted)

\* C12: when a validated submission was accepted and the notification call
\* fails (or the bot is not configured), the request still answers 2xx.
C12_NotifyFailureStillSuccess ==
  (ReachedDelivery /\ ~res.tgOk /\ (variant \in Persisting => req.id \in saved)) =>
    (res.status \in 200..299 /\ res.success)

\* C13: where records are persisted, a notification is dispatched only for
\* a record whose save has succeeded.
C13_NotifyOnlyAfterSave ==
  variant \in Persisting =>
    /\ notified \subseteq saved
    /\ \A h \in inflight : h.wait = "notification" => h.req.id \in saved

\* A first submission was saved and notified; the save of a second one
\* failed and no notification was started for it.
C13_Witness ==
  /\ variant = "cjs"
  /\ SaveFailed
  /\ res.status = 500
  /\ req.id = 2
  /\ saved = {1}
  /\ notified = {1}
  /\ inflight = {}

\* C14: a failed save is answered 5xx in production and, in development
\* mode, with a success and only a logged warning.
C14_PersistFailureByMode ==
  SaveFailed =>
    IF isProduction THEN res.status \in 500..599
    ELSE res.status \in 200..299 /\ res.success

(***************************************************************************)
(* The form scripts of the pages, in front of a server that answers POST   *)
(* /api/messages (variant).  The repository holds four scripts for the     *)
(* contact form.  js/contact-form.js is rejected by the parser (its first  *)
(* submit handler declares formData twice in one block and leaves two try  *)
(* blocks open), so none of its statements runs and no submit handler is   *)
(* registered.  The submit handler of the second ("part_003") calls        *)
(* validateForm(), which no scope of the script defines, and throws before *)
(* it sends anything; its initForm() throws before it registers            *)
(* handleSubmit.  The handler of js/form-handler.js sends one request per  *)
(* submit event, with no flag, no timer and no retry.  The class           *)
(* FormHandler ("part_000") sets its flag isSubmitting and disables the    *)
(* button while its one request is under way, and sends the CSRF token of  *)
(* the page when there is one; it has no timer and no retry.  The script   *)
(* of the careers form ("part_001") runs with its retry.  client is the    *)
(* state of one                                                            *)
(* form under one script: the submit events it took, the flag              *)
(* submissionInProgress, the submit button, the text of the status line,   *)
(* the number of success messages shown, and one record per submit action  *)
(* that sent a request: the step its chain is at, the attempt number, the  *)
(* answer the server has ready for its request (0: none yet) and, as        *)
(* history, the times of its requests, the way every attempt ended, the    *)
(* way the chain ended and the number of its requests the server           *)
(* delivered.  Time moves with the steps: a response or failure arrives    *)
(* some time after the request, a timer fires at its due time or later.    *)
(***************************************************************************)
MAX_RETRIES == 2
RETRY_DELAY == 1000

\* The time after which the specification has a request without a response
\* aborted (the careers form sets no such timer).
FETCH_TIMEOUT == 10000

MaxSubmits == 2

Forms == {"contact", "careers"}

\* The scripts of the repository, each with the form it is written for.
Scripts == { <<"contact", "contact-form.js">>, <<"contact", "part_003">>,
             <<"contact", "form-handler.js">>, <<"contact", "part_000">>,
             <<"careers", "part_001">> }

\* getCSRFToken of the class FormHandler: the content of the meta tag
\* csrf-token of the page, null without one.  The other scripts send none.
PageTokens(script) == IF script = "part_000" THEN Tokens0 ELSE {UNDEF}

\* The servers of the repository that answer POST /api/messages.
Servers == {"relay", "form", "esm", "cjs"}

\* The time a response or a failure takes, and the lag of a timer.
Latencies == {1, 20000}
Lags == {0, 1}

\* The JSON body a valid careers form posts (the fields a handler reads).
FormData ==
  [name |-> UNDEF, firstName |-> <<"A","d","a">>, lastName |-> <<"L","o">>,
   email |-> <<"a","@","b",".","c","o">>, phone |-> <<>>, subject |-> UNDEF,
   message |-> <<"h","e","l","l","o"," ","w","o","r","l","d">>, content |-> UNDEF, website |-> UNDEF,
   honeypot |-> UNDEF, privacyPolicyAccepted |-> UNDEF]

NewChain == [pc |-> "start", attempt |-> 1, waitFrom |-> 0, answer |-> 0,
             sent |-> <<>>, log |-> <<>>, end |-> "none", delivered |-> 0]

\* The JSON body the handler of js/form-handler.js posts: the five fields it
\* reads from the form.
ContactData ==
  [name |-> UNDEF, firstName |-> <<"A","d","a">>, lastName |-> <<"L","o">>,
   email |-> <<"a","@","b",".","c","o">>, phone |-> UNDEF, subject |-> <<"h","i">>,
   message |-> <<"h","e","l","l","o"," ","w","o","r","l","d">>, content |-> UNDEF, website |-> UNDEF,
   honeypot |-> UNDEF, privacyPolicyAccepted |-> UNDEF]

\* The script state as the chain of submit action i sees it.
ChainView(cl, ch) ==
  [form |-> cl.form, script |-> cl.script, csrfToken |-> cl.csrfToken, events |-> cl.events,
   inProgress |-> cl.inProgress, button |-> cl.button, ui |-> cl.ui,
   successes |-> cl.successes,
   pc |-> ch.pc, attempt |-> ch.attempt, waitFrom |-> ch.waitFrom,
   answer |-> ch.answer, sent |-> ch.sent, log |-> ch.log, end |-> ch.end,
   delivered |-> ch.delivered]

\* The script state after the chain of submit action i has made a step.
ChainPut(cl, i, c) ==
  LET ch == [pc |-> c.pc, attempt |-> c.attempt, waitFrom |-> c.waitFrom,
             answer |-> c.answer, sent |-> c.sent, log |-> c.log, end |-> c.end,
             delivered |-> c.delivered]
      n == IF i > Len(cl.chains) THEN i ELSE Len(cl.chains)
  IN  [cl EXCEPT !.inProgress = c.inProgress, !.button = c.button, !.ui = c.ui,
                 !.successes = c.successes,
                 !.chains = [k \in 1..n |-> IF k = i THEN ch ELSE cl.chains[k]]]

Later(t, due) == IF due > t THEN due ELSE t

\* The catch block of submitFormWithRetry for an attempt that ended at time
\* t with an error named errName: retry after a backoff, or show the error
\* (and then the finally block: the flag is cleared, the button enabled).
\* A TypeError, and any error while navigator.onLine is false, is taken for
\* a network error.
CatchError(c, errName, how, online, t) ==
  LET isNetworkError == errName = "TypeError" \/ ~online
      shouldRetry == isNetworkError /\ c.attempt < MAX_RETRIES
      entry == [attempt |-> c.attempt, how |-> how, at |-> t,
                sentAt |-> c.sent[Len(c.sent)], retried |-> shouldRetry]
  IN  IF shouldRetry
        THEN [c EXCEPT !.pc = "waiting", !.ui = "retrying", !.waitFrom = t,
                       !.log = Append(@, entry)]
        ELSE [c EXCEPT !.pc = "done", !.ui = "error", !.end = "error",
                       !.inProgress = FALSE, !.button = "enabled",
                       !.log = Append(@, entry)]

\* The catch block sending the request again at once after a network
\* failure (mutation of catchFormHandler, defined next).
catchFormHandlerResend(c, how, t) ==
  IF how = "network" /\ c.attempt < MAX_RETRIES
    THEN [c EXCEPT !.pc = "inflight", !.attempt = @ + 1, !.answer = 0,
                   !.sent = Append(@, t),
                   !.log = Append(@, [attempt |-> c.attempt, how |-> how, at |-> t,
                                      sentAt |-> c.sent[Len(c.sent)], retried |-> TRUE])]
    ELSE [c EXCEPT !.pc = "done", !.ui = "error", !.end = "error",
                   !.log = Append(@, [attempt |-> c.attempt, how |-> how, at |-> t,
                                      sentAt |-> c.sent[Len(c.sent)], retried |-> FALSE])]

\* The catch block of the submit handler of js/form-handler.js: whatever
\* failed, the error line is appended to the form and the handler is done.
catchFormHandler(c, how, t) ==
  [c EXCEPT !.pc = "done", !.ui = "error", !.end = "error",
            !.log = Append(@, [attempt |-> c.attempt, how |-> how, at |-> t,
                               sentAt |-> c.sent[Len(c.sent)], retried |-> FALSE])]

\* The catch and finally blocks of FormHandler.handleSubmit: the error
\* message is shown, the flag cleared and the button enabled.
catchHandleSubmit(c, how, t) ==
  [c EXCEPT !.pc = "done", !.ui = "error", !.end = "error",
            !.inProgress = FALSE, !.button = "enabled",
            !.log = Append(@, [attempt |-> c.attempt, how |-> how, at |-> t,
                               sentAt |-> c.sent[Len(c.sent)], retried |-> FALSE])]

\* The catch block of the script the chain runs in.
Catch(c, errName, how, online, t) ==
  CASE c.script = "form-handler.js" -> catchFormHandler(c, how, t)
    [] c.script = "part_000" -> catchHandleSubmit(c, how, t)
    [] OTHER -> CatchError(c, errName, how, online, t)

\* The body of submitFormWithRetry up to its first await: the flag is set,
\* the button disabled, the status line overwritten with the submitting
\* text, and the request sent.
StartAttempt(c, t) ==
  [c EXCEPT !.inProgress = TRUE, !.button = "disabled", !.ui = "submitting",
            !.pc = "inflight", !.answer = 0, !.sent = Append(@, t)]

\* What a server does with the request of the form: the status it answers
\* and whether it delivered the record (saved it or sent the notification).
\* The relay and src/server/index.js hand the body to their handler.  The
\* gate of the ES-module application answers 403 to a request without the
\* session's CSRF token; the validation step of the CommonJS router throws
\* and the controller is never reached.  No server keeps a memory of the
\* bodies it has seen.
ServerAnswer(v, body, token, production, dbOk, tgOk) ==
  LET a == Controller(v, body, production, TRUE, dbOk, tgOk)
  IN  CASE v = "esm" /\ ~csrfProtection(token, SessionToken) ->
             [status |-> 403, delivered |-> FALSE]
        [] v = "cjs" -> [status |-> 500, delivered |-> FALSE]
        [] OTHER -> [status |-> a.status, delivered |-> a.save \/ a.notify]

InitClient ==
  /\ client \in { [form |-> x[1][1], script |-> x[1][2], csrfToken |-> x[2],
                   events |-> 0, inProgress |-> FALSE,
                   button |-> "enabled", ui |-> "none", successes |-> 0,
                   chains |-> <<>>] :
                    x \in { y \in Scripts \X Tokens0 : y[2] \in PageTokens(y[1][2]) } }
  /\ variant \in Servers
  /\ now = 0
  /\ limiter = NoLimiter
  /\ storage = <<>>
  /\ windows = <<>>
  /\ submissionHashes = <<>>
  /\ timers = {}
  /\ admits = <<>>
  /\ repeats = <<>>
  /\ req = NoReq
  /\ res = NoRes
  /\ nreq = 0
  /\ nticks = 0
  /\ pc = "idle"
  /\ ran = <<>>
  /\ saved = {}
  /\ notified = {}
  /\ inflight = {}
  /\ isProduction = TRUE
  /\ telegramConfigured = TRUE
  /\ messages = <<>>
  /\ removed = {}
  /\ db = NoDb
  /\ migrator = NoMigrator
  /\ sessions = <<>>
  /\ csrfTokens = <<>>
  /\ issued = <<>>

ClientUnchanged ==
  /\ UNCHANGED <<variant, req, res, nreq, nticks>>
  /\ UNCHANGED guardVars
  /\ UNCHANGED limVars
  /\ UNCHANGED <<pc, ran, saved, notified, inflight, isProduction, telegramConfigured, messages, removed, db, migrator>>
  /\ UNCHANGED csrfVars

Chain(i) == ChainView(client, client.chains[i])

IsChain(i, step) == i \in 1..Len(client.chains) /\ client.chains[i].pc = step

\* A submit event on the contact form under js/contact-form.js (no handler
\* is registered) or under the second script (its handler throws at
\* validateForm()): no request is sent and nothing of the script state
\* changes.
UnhandledSubmit ==
  /\ client.script \in {"contact-form.js", "part_003"}
  /\ client.events < MaxSubmits
  /\ client' = [client EXCEPT !.events = @ + 1]
  /\ now' = now
  /\ ClientUnchanged

\* The submit handler of js/form-handler.js: every submit event removes the
\* error line of an earlier one and posts the fields of the form; the
\* script keeps no flag and leaves the button alone.
FormHandlerSubmit ==
  LET c == ChainView(client, NewChain)
  IN  /\ client.script = "form-handler.js"
      /\ Len(client.chains) < MaxSubmits
      /\ client' = [ChainPut(client, Len(client.chains) + 1,
                             [c EXCEPT !.pc = "inflight", !.sent = <<now>>,
                                       !.ui = IF @ = "error" THEN "none" ELSE @])
                      EXCEPT !.events = @ + 1]
      /\ now' = now
      /\ ClientUnchanged

\* FormHandler.handleSubmit up to its await: a submit event is dropped while
\* isSubmitting is set; otherwise the flag is set, the button disabled and
\* the messages cleared.  Data that fails validateContactForm ends in the
\* catch block (displayValidationErrors reads an undeclared name) without a
\* request; valid data is posted.
handleSubmit(click, valid) ==
  LET c == ChainView(client, NewChain)
  IN  /\ client.script = "part_000"
      /\ ~client.inProgress
      /\ click => client.button = "enabled"
      /\ client.events < MaxSubmits
      /\ Len(client.chains) < MaxSubmits
      /\ client' =
           IF valid
             THEN [ChainPut(client, Len(client.chains) + 1,
                            [c EXCEPT !.pc = "inflight", !.sent = <<now>>, !.ui = "none",
                                      !.inProgress = TRUE, !.button = "disabled"])
                     EXCEPT !.events = @ + 1]
             ELSE [client EXCEPT !.events = @ + 1, !.ui = "error"]
      /\ now' = now
      /\ ClientUnchanged

\* handleFormSubmit of the careers form: a submit event on a valid form is
\* dropped while the flag is set; otherwise it starts a chain with attempt
\* 1.  A click needs the button enabled; other submit events
\* (form.requestSubmit(), a second submit control) do not.
ClientSubmit(click) ==
  /\ client.script = "part_001"
  /\ ~client.inProgress
  /\ click => client.button = "enabled"
  /\ Len(client.chains) < MaxSubmits
  /\ client' = [ChainPut(client, Len(client.chains) + 1,
                         StartAttempt(ChainView(client, NewChain), now))
                  EXCEPT !.events = @ + 1]
  /\ now' = now
  /\ ClientUnchanged

\* The server handles the request in flight of chain i.
ServerHandle(i, dbOk, tgOk) ==
  LET a == ServerAnswer(variant,
                        IF client.form = "contact" THEN ContactData ELSE FormData,
                        client.csrfToken, isProduction, dbOk, tgOk)
  IN  /\ IsChain(i, "inflight")
      /\ client.chains[i].answer = 0
      /\ client' = [client EXCEPT !.chains[i].answer = a.status,
                                  !.chains[i].delivered =
                                    IF a.delivered THEN @ + 1 ELSE @]
      /\ now' = now
      /\ ClientUnchanged

\* The server's answer arrives; response.ok is status in 200..299.  After a
\* success showSuccess inserts the success message and the finally block
\* clears the flag and enables the button; the status line keeps its text
\* (js/form-handler.js: an alert, and neither flag nor button to reset).
ClientResponse(i, d, online) ==
  LET c == Chain(i)
  IN  /\ IsChain(i, "inflight")
      /\ c.answer # 0
      /\ now' = now + d
      /\ client' = ChainPut(client, i,
           IF c.answer \in 200..299
             THEN [c EXCEPT !.pc = "done", !.successes = @ + 1, !.end = "success",
                     !.inProgress = FALSE, !.button = "enabled",
                     !.log = Append(@, [attempt |-> c.attempt, how |-> "ok",
                                        at |-> now + d,
                                        sentAt |-> c.sent[Len(c.sent)],
                                        retried |-> FALSE])]
             ELSE Catch(c, "Error", "http", online, now + d))
      /\ ClientUnchanged

\* fetch rejects with a TypeError: the request failed at the network level
\* (before or after the server handled it).
ClientNetworkFailure(i, d, online) ==
  LET c == Chain(i)
  IN  /\ IsChain(i, "inflight")
      /\ now' = now + d
      /\ client' = ChainPut(client, i, Catch(c, "TypeError", "network", online, now + d))
      /\ ClientUnchanged

\* The backoff timer setTimeout(resolve, RETRY_DELAY * attempt) fires and the
\* catch block calls submitFormWithRetry(attempt + 1); returning its promise
\* runs the finally block of the outer call, which clears the flag and
\* enables the button.
ClientRetry(i, lag) ==
  LET c == Chain(i)
  IN  /\ IsChain(i, "waiting")
      /\ now' = Later(now, c.waitFrom + RETRY_DELAY * c.attempt + lag)
      /\ client' = ChainPut(client, i,
           [StartAttempt([c EXCEPT !.attempt = @ + 1], now')
              EXCEPT !.inProgress = FALSE, !.button = "enabled"])
      /\ ClientUnchanged

NextClient ==
  \/ UnhandledSubmit
  \/ FormHandlerSubmit
  \/ \E click \in BOOLEAN, valid \in BOOLEAN : handleSubmit(click, valid)
  \/ \E click \in BOOLEAN : ClientSubmit(click)
  \/ \E i \in 1..MaxSubmits, dbOk \in BOOLEAN, tgOk \in BOOLEAN : ServerHandle(i, dbOk, tgOk)
  \/ \E i \in 1..MaxSubmits, d \in Latencies, online \in BOOLEAN : ClientResponse(i, d, online)
  \/ \E i \in 1..MaxSubmits, d \in Latencies, online \in BOOLEAN :
       ClientNetworkFailure(i, d, online)
  \/ \E i \in 1..MaxSubmits, lag \in Lags : ClientRetry(i, lag)

SpecClient == InitClient /\ [][NextClient]_vars

\* The script's own steps happen when they can; the server and the network
\* owe the client nothing.
FairClient ==
  /\ SpecClient
  /\ \A i \in 1..MaxSubmits : WF_vars(\E lag \in Lags : ClientRetry(i, lag))

\* The contact form alone, under each of its scripts.
InitContact == InitClient /\ client.form = "contact"

NextContact ==
  \/ UnhandledSubmit
  \/ FormHandlerSubmit
  \/ \E click \in BOOLEAN, valid \in BOOLEAN : handleSubmit(click, valid)
  \/ \E i \in 1..MaxSubmits, dbOk \in BOOLEAN, tgOk \in BOOLEAN : ServerHandle(i, dbOk, tgOk)
  \/ \E i \in 1..MaxSubmits, d \in Latencies, online \in BOOLEAN : ClientResponse(i, d, online)
  \/ \E i \in 1..MaxSubmits, d \in Latencies, online \in BOOLEAN :
       ClientNetworkFailure(i, d, online)

SpecContact == InitContact /\ [][NextContact]_vars

(***************************************************************************)
(* Properties of the form scripts.                                         *)
(***************************************************************************)
ClientBusy(i) == IsChain(i, "inflight") \/ IsChain(i, "waiting")

ClientFinished(i) ==
  IsChain(i, "done") /\ client.chains[i].end \in {"success", "error"}

\* Every request after a retried attempt k leaves RETRY_DELAY * k or more
\* after that attempt failed.
BackoffKept(ch) ==
  \A i \in 1..Len(ch.log), j \in 1..Len(ch.sent) :
    (ch.log[i].retried /\ ch.sent[j] > ch.log[i].sentAt) =>
      ch.sent[j] >= ch.log[i].at + RETRY_DELAY * ch.log[i].attempt

\* C15: for one submit action the form script sends at most MAX_RETRIES
\* requests, waits RETRY_DELAY * k after the k-th failed attempt, and always
\* ends showing the success or the error message.
C15_BoundedRetriesTerminate ==
  /\ [](\A i \in 1..Len(client.chains) :
          Len(client.chains[i].sent) <= MAX_RETRIES /\ BackoffKept(client.chains[i]))
  /\ \A i \in 1..MaxSubmits : ClientBusy(i) ~> ClientFinished(i)

\* C16: a request without a response after 10 seconds is aborted; an attempt
\* that ended by timeout or by a network failure is retried while fewer than
\* MAX_RETRIES attempts were made; one answered with an HTTP error is not.
C16_TimeoutAndRetryPolicy ==
  \A k \in 1..Len(client.chains) :
    \A i \in 1..Len(client.chains[k].log) :
      LET e == client.chains[k].log[i]
      IN  /\ e.at - e.sentAt >= FETCH_TIMEOUT => e.how = "timeout"
          /\ (e.how \in {"timeout", "network"} /\ e.attempt < MAX_RETRIES) => e.retried
          /\ e.how = "http" => ~e.retried

\* C26: while a submission chain of a form (an attempt, its backoff wait or
\* a retry) is in progress, the in-progress flag stays set and the submit
\* button stays disabled, and at most one request of the form is in flight.
C26_OneChainAtATime ==
  /\ (\E i \in 1..Len(client.chains) : ClientBusy(i)) =>
       (client.inProgress /\ client.button = "disabled")
  /\ Cardinality({ i \in 1..Len(client.chains) : IsChain(i, "inflight") }) <= 1

MaxTokens == 2
MaxCsrfReqs == 2
MaxCsrfTicks == 2

CSRF_TTL == 60 * 60 * 1000

SessionIds == {"s1", "s2"}

\* The n-th token generated.
generateCsrfToken(n) == [i \in 1..n |-> "k"]

\* for (const [token, data] of csrfTokens.entries())
\*   if (data.expires < now) csrfTokens.delete(token)
CleanExpired(meta, t) ==
  [k \in {x \in DOMAIN meta : ~(meta[x].expires < t)} |-> meta[k]]

\* csrfProtection as mounted: GET passes; the token test; then the expiry
\* test, enforced only for a token with metadata in csrfTokens.
csrfGate(method, token, sessionToken, meta, t) ==
  IF method \in {"GET", "HEAD", "OPTIONS"}
    THEN [out |-> "next", status |-> 0, meta |-> meta, clear |-> FALSE]
  ELSE IF ~csrfProtection(token, sessionToken)
    THEN [out |-> "forbidden", status |-> 403, meta |-> meta, clear |-> FALSE]
  ELSE IF token \in DOMAIN meta /\ meta[token].expires < t
    THEN [out |-> "expired", status |-> 403, meta |-> MapDelete(meta, token),
          clear |-> TRUE]
  ELSE [out |-> "next", status |-> 0, meta |-> meta, clear |-> FALSE]

InitCsrf ==
  /\ variant = "esm"
  /\ now = 0
  /\ limiter = NoLimiter
  /\ storage = <<>>
  /\ windows = <<>>
  /\ submissionHashes = <<>>
  /\ timers = {}
  /\ admits = <<>>
  /\ repeats = <<>>
  /\ req = NoReq
  /\ res = NoRes
  /\ nreq = 0
  /\ nticks = 0
  /\ pc = "idle"
  /\ ran = <<>>
  /\ saved = {}
  /\ notified = {}
  /\ inflight = {}
  /\ isProduction = FALSE
  /\ telegramConfigured = TRUE
  /\ messages = <<>>
  /\ removed = {}
  /\ db = NoDb
  /\ migrator = NoMigrator
  /\ client = NoClient
  /\ sessions = <<>>
  /\ csrfTokens = <<>>
  /\ issued = <<>>

CsrfUnchanged ==
  /\ UNCHANGED <<variant, pc, ran, saved, notified, inflight, isProduction, telegramConfigured, messages, removed, db, migrator, client>>
  /\ UNCHANGED guardVars
  /\ UNCHANGED limVars

\* csrfTokenMiddleware on a page request (a path outside /api/).
CsrfPage(sid) ==
  LET cur == Lookup(sessions, sid, UNDEF)
      fresh == ~Truthy(cur) \/ cur \notin DOMAIN csrfTokens
                 \/ csrfTokens[cur].expires < now
      tok == generateCsrfToken(Len(issued) + 1)
  IN  /\ fresh => Len(issued) < MaxTokens
      /\ IF fresh
           THEN /\ sessions' = MapSet(sessions, sid, tok)
                /\ csrfTokens' = CleanExpired(
                     MapSet(csrfTokens, tok, [expires |-> now + CSRF_TTL, sessionId |-> sid]),
                     now)
                /\ issued' = Append(issued, [token |-> tok, sessionId |-> sid,
                                              by |-> "middleware", at |-> now])
           ELSE /\ csrfTokens' = CleanExpired(csrfTokens, now)
                /\ UNCHANGED <<sessions, issued>>
      /\ UNCHANGED <<now, req, res, nreq, nticks>>
      /\ CsrfUnchanged

\* GET /api/csrf-token: a new token for the session, recorded in the map of
\* csrf.routes.js only.
CsrfTokenRoute(sid) ==
  LET tok == generateCsrfToken(Len(issued) + 1)
  IN  /\ Len(issued) < MaxTokens
      /\ sessions' = MapSet(sessions, sid, tok)
      /\ issued' = Append(issued, [token |-> tok, sessionId |-> sid,
                                    by |-> "route", at |-> now])
      /\ UNCHANGED <<csrfTokens, now, req, res, nreq, nticks>>
      /\ CsrfUnchanged

\* The tokens a request can present: none, one never generated, or any
\* generated token, whichever session it was generated for.
Presentable == {UNDEF, <<"x">>} \cup { issued[i].token : i \in 1..Len(issued) }

\* A request of session sid to a route behind csrfProtection.
CsrfRequest(sid, method, token) ==
  LET cur == Lookup(sessions, sid, UNDEF)
      g == csrfGate(method, token, cur, csrfTokens, now)
  IN  /\ nreq < MaxCsrfReqs
      /\ nreq' = nreq + 1
      /\ req' = [method |-> method, sessionId |-> sid, csrfToken |-> token,
                 sessionToken |-> cur]
      /\ res' = [NoRes EXCEPT !.stage = "csrf", !.out = g.out, !.status = g.status,
                   !.logged = (g.out = "forbidden"), !.at = now]
      /\ csrfTokens' = g.meta
      /\ sessions' = IF g.clear THEN MapDelete(sessions, sid) ELSE sessions
      /\ UNCHANGED <<issued, now, nticks>>
      /\ CsrfUnchanged

CsrfDeltas == {1, CSRF_TTL}

CsrfTick(d) ==
  /\ nticks < MaxCsrfTicks
  /\ nticks' = nticks + 1
  /\ now' = now + d
  /\ UNCHANGED <<req, res, nreq>>
  /\ UNCHANGED csrfVars
  /\ CsrfUnchanged

NextCsrf ==
  \/ \E sid \in SessionIds : CsrfPage(sid)
  \/ \E sid \in SessionIds : CsrfTokenRoute(sid)
  \/ \E sid \in SessionIds, method \in {"GET", "POST"}, token \in Presentable :
       CsrfRequest(sid, method, token)
  \/ \E d \in CsrfDeltas : CsrfTick(d)

SpecCsrf == InitCsrf /\ [][NextCsrf]_vars

\* The sessions a token was generated for.
IssuedTo(token) == { issued[i].sessionId : i \in {j \in 1..Len(issued) : issued[j].token = token} }

CsrfChecked == res.stage = "csrf" /\ req.method = "POST"

\* C17: a state-changing request passes the CSRF protection only with a
\* token equal to the one stored in its own session; without a token it is
\* answered 403, and so it is with a token generated for another session.
C17_TokenBoundToSession ==
  CsrfChecked =>
    /\ res.out = "next" =>
         (Truthy(req.csrfToken) /\ req.csrfToken = req.sessionToken
            /\ IssuedTo(req.csrfToken) = {req.sessionId})
    /\ req.csrfToken = UNDEF => res.status = 403
    /\ (IssuedTo(req.csrfToken) # {} /\ req.sessionId \notin IssuedTo(req.csrfToken)) =>
         res.status = 403

\* A session holding a token of its own presents the token generated for
\* the other session and is answered 403.
C17_Witness ==
  /\ CsrfChecked
  /\ Truthy(req.sessionToken)
  /\ Truthy(req.csrfToken)
  /\ IssuedTo(req.csrfToken) # {}
  /\ req.sessionId \notin IssuedTo(req.csrfToken)
  /\ res.status = 403

\* C18: a submission that got through the limiter, the honeypot check and
\* the validators and whose save succeeded leaves exactly one new record
\* and is answered 200/201 with the identifier generated for that record.
C18_AcceptedStoredOnce ==
  [][(/\ \E h \in inflight : h.wait = "save" /\ h.req = req' /\ h \notin inflight'
      /\ pc' = "done"
      /\ variant \in Persisting
      /\ res'.stage = "delivery"
      /\ res'.dbOk
      /\ ~Truthy(req'.submitted.website)
      /\ ~FailsValidation(variant, req'.entry, req'.submitted))
       => (/\ req'.id \notin saved
           /\ saved' = saved \cup {req'.id}
           /\ res'.status \in {200, 201}
           /\ res'.success
           /\ res'.id = req'.id)]_vars

\* The second of two accepted submissions through the ES-module router is
\* answered 201 with its own identifier; both records are stored.
C18_Witness ==
  /\ Done
  /\ variant = "esm"
  /\ req.entry = "router"
  /\ res.stage = "delivery"
  /\ res.status = 201
  /\ res.id = 2
  /\ req.id = 2
  /\ saved = {1, 2}

(***************************************************************************)
(* Further properties of the duplicate guard.                              *)
(***************************************************************************)
\* The expiry timers run when they are due; nothing obliges a further
\* request to arrive.
FairGuard ==
  /\ SpecGuard
  /\ WF_vars(\E tm \in timers : TimerFire(tm))

\* The keys the requests of the model can record.
GuardHashes == { createSubmissionHash(r) : r \in {x \in GuardRequests : x.hasBody} }

\* The store holds h with a timestamp older than the TTL.
Stale(h) ==
  h \in DOMAIN submissionHashes /\ now - submissionHashes[h] > HASH_TTL

\* C19: every hash recorded in the store is removed once its TTL has
\* elapsed, even when no further request reaches the guard.
C19_ExpiredEventuallyRemoved ==
  \A h \in GuardHashes : Stale(h) ~> ~Stale(h)

\* The same content from another address, admitted within the TTL before
\* the current request.
SameContentElsewhere ==
  \E ip \in IPs \ {req.ip} :
    LET h == createSubmissionHash([req EXCEPT !.ip = ip])
    IN  /\ h \in DOMAIN admits
        /\ admits[h] <= res.at
        /\ res.at - admits[h] < HASH_TTL

\* C20: within the TTL a submission with the email, subject and body of an
\* earlier admitted submission is rejected as a duplicate even when it
\* comes from a different sender.
C20_SameContentOtherSender ==
  (GuardChecked /\ SameContentElsewhere) => (res.out = "dup" /\ res.status = 429)

(***************************************************************************)
(* Field rules of POST /messages.  The requests of this specification vary *)
(* the phone number (with a complete name) or the name fields (without a   *)
(* phone number); the other fields are valid and the honeypot is empty.    *)
(* They run through the same chains as the requests of Spec.               *)
(***************************************************************************)
PhoneSamples ==
  { UNDEF,
    <<"+","1"," ","(","2","1","2",")"," ","5","5","5","-","0","1","0","0">>,
    <<"(","2","1","2",")"," ","5","5","5","-","0","1","0","0">>,
    <<"5","5","5","-","0","1","0","0">>,
    <<"1","2","3","4","5">>,
    <<"a","b","c">>,
    <<"1","2","a","4","5">>,
    <<"1","2","3","4","5","6","7","8","9","0","1","2","3","4","5","6","7","8","9","0","1">> }

NameSamples == {UNDEF, <<"A","d","a"," ","L","o">>, <<"A","d","a">>, <<"A"," ","L","o">>}
FirstNameSamples == {UNDEF, <<"A","d","a">>, <<"A">>}
LastNameSamples == {UNDEF, <<"L","o">>, <<"L">>}

FieldBody(n, f, l, ph) ==
  [name |-> n, firstName |-> f, lastName |-> l, email |-> <<"a","@","b",".","c","o">>, phone |-> ph,
   subject |-> <<"H","i">>, message |-> <<"h","e","l","l","o"," ","w","o","r","l","d">>, content |-> UNDEF,
   website |-> UNDEF, honeypot |-> UNDEF, privacyPolicyAccepted |-> <<"o","n">>]

FieldBodies ==
  { FieldBody(UNDEF, <<"A","d","a">>, <<"L","o">>, ph) : ph \in PhoneSamples }
  \cup
  { FieldBody(n, f, l, UNDEF) :
      n \in NameSamples, f \in FirstNameSamples, l \in LastNameSamples }
  \cup
  \* an address whose top-level domain has one letter: isEmail of the route
  \* rejects it, the Joi rule of the controller takes it
  { [FieldBody(UNDEF, <<"A","d","a">>, <<"L","o">>, UNDEF) EXCEPT
       !.email = <<"a","@","b",".","c">>] }

\* The requests carry the token of their session: the CSRF gates pass.
FieldRequests(v) ==
  { [method |-> "POST", id |-> 0, ip |-> <<"1">>, entry |-> e, csrfToken |-> SessionToken,
     sessionToken |-> SessionToken, body |-> b, submitted |-> b] :
      e \in Entries(v), b \in FieldBodies }

NextFields ==
  \/ \E r \in FieldRequests(variant) : nreq < MaxFieldReqs /\ Arrive(r)
  \/ StageApiLimiter
  \/ StageLimiter
  \/ StageCsrf
  \/ \E crash \in {"hang", "error"} : StageValidate(crash)
  \/ StageController
  \/ \E h \in inflight, dbOk \in BOOLEAN, tgOk \in BOOLEAN : StageSettle(h, dbOk, tgOk)
  \/ \E h \in inflight, tgOk \in BOOLEAN : NotificationSettles(h, tgOk)

SpecFields == Init /\ [][NextFields]_vars

\* The request was handled by a chain of the message controllers and a
\* validation stage or the handler answered it.
FieldChecked ==
  /\ ReachedIntake
  /\ variant \in Persisting
  /\ res.out \in {"invalid", "answered"}

\* The phone rule as stated: digits, spaces, '+', '-' and parentheses only,
\* 5 to 20 characters.
WellFormedPhone(p) == p # UNDEF /\ PhonePattern(p) /\ LenIn(p, 5, 20)

\* C21: a phone value made only of digits, spaces, '+', '-' and parentheses
\* with length 5 to 20 is accepted by every validation stage on the
\* POST /messages path, and a value containing any other character is
\* rejected with HTTP 400.
C21_PhoneRule ==
  FieldChecked =>
    /\ WellFormedPhone(req.submitted.phone) => (~ValidatorRejected /\ res.status # 400)
    /\ (req.submitted.phone # UNDEF /\ ~PhonePattern(req.submitted.phone)) => res.status = 400

\* The first and last name of a submission as stated: the field given
\* directly, else the first token of the combined name and the remainder.
StatedNames(b) ==
  LET parts == IF Truthy(b.name) THEN Tokens(Trim(b.name)) ELSE <<>>
  IN  [firstName |-> IF Truthy(b.firstName) THEN b.firstName
                     ELSE IF parts # <<>> THEN parts[1] ELSE <<>>,
       lastName |-> IF Truthy(b.lastName) THEN b.lastName
                    ELSE IF Len(parts) > 1 THEN JoinSp(Tail(parts)) ELSE <<>>]

\* The name fields that are missing or shorter than 2 visible characters.
ShortNames(b) ==
  { f \in {"firstName", "lastName"} :
      Len(Trim(IF f = "firstName" THEN StatedNames(b).firstName
                                  ELSE StatedNames(b).lastName)) < 2 }

\* C22: a submission whose first or last name (given directly or split from
\* the combined name) is missing or shorter than 2 visible characters is
\* rejected with a 400 validation error naming that field; it never ends in
\* a 5xx and is never delivered.
C22_ShortNameRejected ==
  FieldChecked =>
    \A f \in ShortNames(req.submitted) :
      /\ res.status = 400
      /\ \E e \in res.errors : e.field = f /\ e.tagged
      /\ ~Delivered

(***************************************************************************)
(* The message store and the endpoints that read and delete its records:   *)
(* GET /messages/:id, GET /messages and DELETE /messages/:id of the        *)
(* ES-module and CommonJS routers.  messages maps the _id of every stored  *)
(* document to its deleted flag; saved numbers the documents ever          *)
(* inserted; removed collects the ids whose DELETE was answered 200        *)
(* (history).  A request enters at the router (the CSRF gate of the        *)
(* ES-module router for DELETE, validateObjectId in front of the handler)  *)
(* or at the controller method.  A handler sends its query and returns to  *)
(* the event loop; the database runs the query; the handler writes its     *)
(* answer on a later turn.  Other requests are received, run and answered  *)
(* in between: inflight holds the handlers that wait, req and res show the *)
(* request that was received or answered last.  db names the release of    *)
(* the ObjectId library the build runs with.                               *)
(***************************************************************************)
MaxDocs == 2
MaxStoreReqs == 2

HexDigits ==
  Digits \cup {"a", "b", "c", "d", "e", "f"} \cup {"A", "B", "C", "D", "E", "F"}

\* ObjectId.isValid on a string: 24 hexadecimal characters of either case;
\* the releases of the library before its sixth also take every string of
\* 12 characters (12 bytes).
ObjectIdIsValid(s, legacy) ==
  \/ Len(s) = 24 /\ AllIn(s, HexDigits)
  \/ legacy /\ Len(s) = 12

\* The _id of the n-th inserted document.
ObjectIdOf(n) == [i \in 1..24 |-> IF i = 24 THEN <<"1", "2", "3", "4">>[n] ELSE "0"]

\* The ids a request can name: those of the documents, a well-formed id in
\* upper-case digits that no document ever gets, a string of 12 characters
\* and a string that is no ObjectId for any release.
StoreIds ==
  { ObjectIdOf(n) : n \in 1..MaxDocs }
  \cup { [i \in 1..24 |-> "A"] }
  \cup { <<"a","b","c","d","e","f","g","h","i","j","k","l">> }
  \cup { <<"n","o","n","-","e","x","i","s","t","e","n","t","-","i","d">> }

StoreAnswer(status, data, store) == [status |-> status, data |-> data, store |-> store]

\* validateObjectId('id') of the routers.
validateObjectId(id, legacy) == ObjectIdIsValid(id, legacy)

\* MessageController.getMessage, ES module: findById(id).lean(); a cast
\* error or a failing query is caught and answered 500.
getMessageEsm(store, id, legacy, dbOk) ==
  IF ~dbOk \/ ~ObjectIdIsValid(id, legacy) THEN StoreAnswer(500, {}, store)
  ELSE IF id \notin DOMAIN store THEN StoreAnswer(404, {}, store)
  ELSE StoreAnswer(200, {id}, store)

\* MessageController.getMessage, CommonJS: MessageService.getMessageById
\* throws 'Message not found' inside its own try, the catch rethrows
\* 'Failed to get message', the controller hands it to next(error) and the
\* global error handler answers err.statusCode || 500.
getMessageCjs(store, id, legacy, dbOk) ==
  IF ~dbOk \/ ~ObjectIdIsValid(id, legacy) \/ id \notin DOMAIN store
    THEN StoreAnswer(500, {}, store)
  ELSE StoreAnswer(200, {id}, store)

\* MessageController.getMessages: Message.find(query) (ES module) and
\* findWithPagination of the CommonJS model, both with an empty query and
\* the default page of 10 documents.
getMessages(store, dbOk) ==
  IF ~dbOk THEN StoreAnswer(500, {}, store)
  ELSE StoreAnswer(200, DOMAIN store, store)

\* MessageController.deleteMessage, ES module:
\* findByIdAndUpdate(id, {deleted: true, deletedBy: req.user?.id || 'system',
\* ...}).  deletedBy is an ObjectId path of the schema, so the update of a
\* request without a user fails on the cast of 'system' and is answered 500.
deleteMessageEsm(store, id, userId, legacy, dbOk) ==
  LET deletedBy == IF Truthy(userId) THEN userId ELSE <<"s","y","s","t","e","m">>
  IN
  IF ~dbOk \/ ~ObjectIdIsValid(id, legacy) \/ ~ObjectIdIsValid(deletedBy, legacy)
    THEN StoreAnswer(500, {}, store)
  ELSE IF id \notin DOMAIN store THEN StoreAnswer(404, {}, store)
  ELSE StoreAnswer(200, {}, [store EXCEPT ![id] = [deleted |-> TRUE]])

\* MessageController.deleteMessage, CommonJS: MessageService.deleteMessage
\* runs findByIdAndDelete(id); its failures end in the error handler.
deleteMessageCjs(store, id, legacy, dbOk) ==
  IF ~dbOk \/ ~ObjectIdIsValid(id, legacy) \/ id \notin DOMAIN store
    THEN StoreAnswer(500, {}, store)
  ELSE StoreAnswer(200, {}, MapDelete(store, id))

\* The middleware in front of a handler of the router.  ES module: DELETE
\* passes csrfProtection (router.use for the methods other than GET, and
\* again on the route).  Both routers: validateObjectId on the routes of an
\* id.  The status answered by the first that rejects, 0 when all pass.
ThroughRouter(v, r, legacy) ==
  IF r.entry # "router" THEN 0
  ELSE IF v = "esm" /\ r.method = "DELETE" /\ ~csrfProtection(r.csrfToken, SessionToken)
    THEN 403
  ELSE IF r.path = "/:id" /\ ~validateObjectId(r.id, legacy) THEN 400
  ELSE 0

\* The query of the handler of request r, run on the store.
StoreQuery(v, r, store, legacy, dbOk) ==
  CASE r.method = "GET" /\ r.path = "/" -> getMessages(store, dbOk)
    [] r.method = "GET" ->
         IF v = "esm" THEN getMessageEsm(store, r.id, legacy, dbOk)
                      ELSE getMessageCjs(store, r.id, legacy, dbOk)
    [] OTHER ->
         IF v = "esm" THEN deleteMessageEsm(store, r.id, r.userId, legacy, dbOk)
                      ELSE deleteMessageCjs(store, r.id, legacy, dbOk)

StoreEntries == {"router", "controller"}

\* req.user?.id: no user, or the id of the user an authentication layer in
\* front of the router attached.
UserIds == {UNDEF, [i \in 1..24 |-> "a"]}

\* The requests to the three endpoints.  Only the gate of the ES-module
\* router reads the CSRF token, and only of a DELETE; only the ES-module
\* deleteMessage reads the user.
StoreRequests(v) ==
  { [method |-> "GET", path |-> "/:id", entry |-> e, id |-> i, userId |-> UNDEF,
     csrfToken |-> SessionToken, n |-> 0, after |-> {}] :
       e \in StoreEntries, i \in StoreIds }
  \cup
  { [method |-> "GET", path |-> "/", entry |-> e, id |-> UNDEF, userId |-> UNDEF,
     csrfToken |-> SessionToken, n |-> 0, after |-> {}] : e \in StoreEntries }
  \cup
  { [method |-> "DELETE", path |-> "/:id", entry |-> x[1], id |-> x[2], userId |-> x[3],
     csrfToken |-> x[4], n |-> 0, after |-> {}] :
       x \in { y \in StoreEntries \X StoreIds \X UserIds \X Tokens0 :
                 /\ (v # "esm" \/ y[1] # "router") => y[4] = SessionToken
                 /\ v # "esm" => y[3] = UNDEF } }

NoStoreRes == [status |-> 0, data |-> {}, dbOk |-> TRUE, matched |-> FALSE]

InitStore ==
  /\ variant \in Persisting
  /\ now = 0
  /\ submissionHashes = <<>>
  /\ timers = {}
  /\ admits = <<>>
  /\ repeats = <<>>
  /\ limiter = NoLimiter
  /\ storage = <<>>
  /\ windows = <<>>
  /\ pc = "idle"
  /\ ran = <<>>
  /\ saved = {}
  /\ notified = {}
  /\ inflight = {}
  /\ isProduction = FALSE
  /\ telegramConfigured = TRUE
  /\ messages = <<>>
  /\ removed = {}
  /\ db \in { [state |-> "none", legacy |-> l] : l \in BOOLEAN }
  /\ migrator = NoMigrator
  /\ client = NoClient
  /\ sessions = <<>>
  /\ csrfTokens = <<>>
  /\ issued = <<>>
  /\ req = NoReq
  /\ res = NoStoreRes
  /\ nreq = 0
  /\ nticks = 0

StoreUnchanged ==
  /\ UNCHANGED <<variant, now, nticks, pc, ran, notified, isProduction, telegramConfigured, db, migrator, client>>
  /\ UNCHANGED csrfVars
  /\ UNCHANGED guardVars
  /\ UNCHANGED limVars

\* message.save() of an accepted submission inserts a document.
StoreSave ==
  LET n == Cardinality(saved) + 1
  IN  /\ n <= MaxDocs
      /\ saved' = saved \cup {n}
      /\ messages' = MapSet(messages, ObjectIdOf(n), [deleted |-> FALSE])
      /\ UNCHANGED <<removed, req, res, nreq, inflight>>
      /\ StoreUnchanged

\* A request is received: the middleware of its route runs and answers, or
\* the handler starts, sends its query and waits.
StoreReceive(r0) ==
  LET r == [r0 EXCEPT !.n = nreq + 1, !.after = removed]
      gate == ThroughRouter(variant, r, db.legacy)
  IN  /\ nreq < MaxStoreReqs
      /\ nreq' = nreq + 1
      /\ req' = r
      /\ IF gate # 0
           THEN /\ res' = [NoStoreRes EXCEPT !.status = gate]
                /\ inflight' = inflight
           ELSE /\ res' = NoStoreRes
                /\ inflight' = inflight \cup {[req |-> r, wait |-> "query", res |-> NoStoreRes]}
      /\ UNCHANGED <<messages, removed, saved>>
      /\ StoreUnchanged

\* The database runs the query of a waiting handler (or the driver fails
\* it): a read sees the store of this moment, a delete changes it.
StoreRun(h, dbOk) ==
  LET a == StoreQuery(variant, h.req, messages, db.legacy, dbOk)
  IN  /\ h \in inflight
      /\ h.wait = "query"
      /\ messages' = a.store
      /\ inflight' = (inflight \ {h}) \cup
           {[h EXCEPT !.wait = "result",
                      !.res = [status |-> a.status, data |-> a.data, dbOk |-> dbOk,
                               matched |-> h.req.id \in DOMAIN messages]]}
      /\ UNCHANGED <<removed, saved, req, res, nreq>>
      /\ StoreUnchanged

\* The result reaches the handler, which writes its answer.
StoreRespond(h) ==
  /\ h \in inflight
  /\ h.wait = "result"
  /\ inflight' = inflight \ {h}
  /\ req' = h.req
  /\ res' = h.res
  /\ removed' = IF h.req.method = "DELETE" /\ h.res.status = 200
                  THEN removed \cup {h.req.id} ELSE removed
  /\ UNCHANGED <<messages, saved, nreq>>
  /\ StoreUnchanged

\* GET /messages/:id
StoreGet(r) == r.method = "GET" /\ r.path = "/:id" /\ StoreReceive(r)

\* GET /messages
StoreList(r) == r.method = "GET" /\ r.path = "/" /\ StoreReceive(r)

\* DELETE /messages/:id
StoreDelete(r) == r.method = "DELETE" /\ StoreReceive(r)

NextStore ==
  \/ StoreSave
  \/ \E r \in StoreRequests(variant) : StoreGet(r)
  \/ \E r \in StoreRequests(variant) : StoreList(r)
  \/ \E r \in StoreRequests(variant) : StoreDelete(r)
  \/ \E h \in inflight, dbOk \in BOOLEAN : StoreRun(h, dbOk)
  \/ \E h \in inflight : StoreRespond(h)

SpecStore == InitStore /\ [][NextStore]_vars

\* The request shown was answered by its handler after the database ran
\* its query.
StoreAnswered == res.status # 0 /\ res.dbOk /\ ThroughRouter(variant, req, db.legacy) = 0

\* The answered request was GET /messages/:id.
GotById == StoreAnswered /\ req.method = "GET" /\ req.path = "/:id"

\* C23: GET /messages/:id for an identifier that matches no stored message
\* (none when the query ran) is answered with HTTP 404, never with 400 or
\* 500.
C23_UnknownIdIs404 ==
  (req.method = "GET" /\ req.path = "/:id" /\ res.status # 0 /\ res.dbOk /\ ~res.matched)
    => res.status = 404

\* C30: after DELETE /messages/:id has succeeded, the message is no longer
\* returned by GET /messages/:id or by the list endpoint (for the requests
\* received after the DELETE was answered), while its record stays in the
\* store flagged as deleted.
C30_SoftDeleteHidesRecord ==
  /\ \A id \in removed : id \in DOMAIN messages /\ messages[id].deleted
  /\ \A id \in req.after :
       /\ (StoreAnswered /\ req.method = "GET") => id \notin res.data
       /\ (GotById /\ req.id = id) => res.status = 404

(***************************************************************************)
(* Expiry of the CSRF tokens.                                              *)
(***************************************************************************)
\* The token was generated more than one hour before time t.
OlderThanTTL(token, t) ==
  \E i \in 1..Len(issued) : issued[i].token = token /\ t - issued[i].at > CSRF_TTL

\* C24: a state-changing request presenting its session's token more than
\* one hour after the token was issued is answered 403 and the session's
\* token is cleared, whichever component issued the token.
C24_TokenExpiresAfterHour ==
  [][(/\ nreq' = nreq + 1
      /\ req'.method = "POST"
      /\ Truthy(req'.csrfToken)
      /\ req'.csrfToken = req'.sessionToken
      /\ OlderThanTTL(req'.csrfToken, now))
       => (/\ res'.status = 403
           /\ req'.sessionId \notin DOMAIN sessions')]_vars

(***************************************************************************)
(* Database connection (utils/db.js and its second variant, "part_012").   *)
(* db holds the module state isConnected, isConnecting, connectionRetries  *)
(* and one record per top-level call of connectDB: the step the call's     *)
(* chain is at, its retryCount, the due time of the timer it awaits, and   *)
(* as history the times of its mongoose.connect attempts and whether a     *)
(* connection was established when it resolved.  link is the state of the  *)
(* connection of mongoose itself ("down", "up"), lost whether it was up    *)
(* before, exitCode whether process.exitCode has been set.                 *)
(***************************************************************************)
MaxDbCalls == 2
MaxDbTimers == 5

DB_MAX_RETRIES == 5
DB_RETRY_DELAY == 5000
DB_WAIT == 1000

DbKinds == {"db.js", "part_012"}

RECURSIVE Pow2(_)
Pow2(n) == IF n = 0 THEN 1 ELSE 2 * Pow2(n - 1)

\* The delay before the next attempt: constant in db.js,
\* RETRY_DELAY * Math.pow(2, retryCount) in the second variant.
RetryDelay(kind, retryCount) ==
  IF kind = "db.js" THEN DB_RETRY_DELAY ELSE DB_RETRY_DELAY * Pow2(retryCount)

NewCall == [pc |-> "start", retryCount |-> 0, wake |-> 0, at |-> <<>>, connected |-> FALSE]

\* connectDB(retryCount) from its first line to its first await, run by the
\* chain of call c at time t on module state d.  inner: the invocation is
\* the `return connectDB(retryCount + 1)` of the catch block of db.js, which
\* runs before the finally of the invoking frame has reset isConnecting.
connectDB(d, c, retryCount, t, inner) ==
  IF d.isConnected
    THEN [d |-> IF inner THEN [d EXCEPT !.isConnecting = FALSE] ELSE d,
          c |-> [c EXCEPT !.pc = "resolved", !.connected = TRUE]]
  ELSE IF d.isConnecting /\ d.kind = "db.js"
    \* if (isConnecting) return;
    THEN [d |-> IF inner THEN [d EXCEPT !.isConnecting = FALSE] ELSE d,
          c |-> [c EXCEPT !.pc = "resolved", !.connected = FALSE]]
  ELSE IF d.isConnecting
    \* await 1000 ms, then connectDB(retryCount)
    THEN [d |-> d,
          c |-> [c EXCEPT !.pc = "waiting", !.retryCount = retryCount,
                          !.wake = t + DB_WAIT]]
  ELSE [d |-> [d EXCEPT !.isConnecting = TRUE,
                        !.connectionRetries =
                          IF d.kind = "db.js" THEN @ ELSE @ + 1],
        c |-> [c EXCEPT !.pc = "connecting", !.retryCount = retryCount,
                        !.at = Append(@, t)]]

\* The catch block of connectDB after mongoose.connect has rejected.
\* db.js counts the failures in the module-wide connectionRetries and leaves
\* isConnecting set until its finally runs; the second variant resets
\* isConnecting at once and tests the retryCount of the chain.
connectFailed(d, c, t) ==
  IF d.kind = "db.js"
    THEN IF d.connectionRetries + 1 < DB_MAX_RETRIES
           THEN [d |-> [d EXCEPT !.connectionRetries = @ + 1],
                 c |-> [c EXCEPT !.pc = "delay",
                                 !.wake = t + RetryDelay(d.kind, c.retryCount)]]
           ELSE [d |-> [d EXCEPT !.connectionRetries = @ + 1, !.isConnecting = FALSE],
                 c |-> [c EXCEPT !.pc = "rejected"]]
    ELSE IF c.retryCount < DB_MAX_RETRIES - 1
           THEN [d |-> [d EXCEPT !.isConnecting = FALSE],
                 c |-> [c EXCEPT !.pc = "delay",
                                 !.wake = t + RetryDelay(d.kind, c.retryCount)]]
           ELSE [d |-> [d EXCEPT !.isConnecting = FALSE],
                 c |-> [c EXCEPT !.pc = "rejected"]]

\* mongoose.connect has resolved.
connectSucceeded(d, c) ==
  [d |-> [d EXCEPT !.isConnected = TRUE, !.isConnecting = FALSE, !.connectionRetries = 0,
                   !.link = "up"],
   c |-> [c EXCEPT !.pc = "resolved", !.connected = TRUE]]

\* A mongoose.connect is pending.
Connecting(d) == \E i \in 1..Len(d.calls) : d.calls[i].pc = "connecting"

InitDb ==
  /\ variant = "esm"
  /\ now = 0
  /\ submissionHashes = <<>>
  /\ timers = {}
  /\ admits = <<>>
  /\ repeats = <<>>
  /\ limiter = NoLimiter
  /\ storage = <<>>
  /\ windows = <<>>
  /\ pc = "idle"
  /\ ran = <<>>
  /\ saved = {}
  /\ notified = {}
  /\ inflight = {}
  /\ isProduction = FALSE
  /\ telegramConfigured = TRUE
  /\ messages = <<>>
  /\ removed = {}
  /\ \E k \in DbKinds :
       db = [kind |-> k, isConnected |-> FALSE, isConnecting |-> FALSE,
             connectionRetries |-> 0, calls |-> <<>>,
             link |-> "down", lost |-> FALSE, exitCode |-> FALSE]
  /\ migrator = NoMigrator
  /\ client = NoClient
  /\ sessions = <<>>
  /\ csrfTokens = <<>>
  /\ issued = <<>>
  /\ req = NoReq
  /\ res = NoRes
  /\ nreq = 0
  /\ nticks = 0

DbUnchanged ==
  /\ UNCHANGED <<variant, pc, ran, saved, notified, inflight, isProduction, telegramConfigured, messages,
                 removed, migrator, client, req, res, nreq>>
  /\ UNCHANGED csrfVars
  /\ UNCHANGED guardVars
  /\ UNCHANGED limVars

DbStep(i, r, t) ==
  /\ db' = [r.d EXCEPT !.calls = [db.calls EXCEPT ![i] = r.c]]
  /\ now' = t
  /\ DbUnchanged

\* A caller (the server start, a health probe) calls connectDB().
DbCall ==
  LET r == connectDB(db, NewCall, 0, now, FALSE)
  IN  /\ Len(db.calls) < MaxDbCalls
      /\ db' = [r.d EXCEPT !.calls = Append(db.calls, r.c)]
      /\ UNCHANGED <<now, nticks>>
      /\ DbUnchanged

\* mongoose.connect of the chain of call i settles.
DbConnectSettles(i, ok) ==
  /\ i \in 1..Len(db.calls)
  /\ db.calls[i].pc = "connecting"
  /\ ~ok => db.link = "down"
  /\ UNCHANGED nticks
  /\ DbStep(i, IF ok THEN connectSucceeded(db, db.calls[i])
                     ELSE connectFailed(db, db.calls[i], now), now)

\* The earliest pending timer fires: the retry delay of a catch block, or
\* the wait of a call that found a connection attempt in progress.
DbTimer(i) ==
  /\ i \in 1..Len(db.calls)
  /\ db.calls[i].pc \in {"delay", "waiting"}
  /\ nticks < MaxDbTimers
  /\ nticks' = nticks + 1
  /\ \A j \in 1..Len(db.calls) :
       db.calls[j].pc \in {"delay", "waiting"} => db.calls[i].wake <= db.calls[j].wake
  /\ LET c == db.calls[i]
         t == IF c.wake > now THEN c.wake ELSE now
     IN  DbStep(i,
           IF c.pc = "delay"
             THEN connectDB(db, c, c.retryCount + 1, t, db.kind = "db.js")
             ELSE connectDB(db, c, c.retryCount, t, FALSE),
           t)

\* mongoose.connection emits 'connected', when a pending mongoose.connect
\* has opened the connection (before its promise resolves) or when the
\* driver has regained a connection that was lost: isConnected is set.
DbConnected ==
  /\ db.link = "down"
  /\ Connecting(db) \/ db.lost
  /\ db' = [db EXCEPT !.isConnected = TRUE, !.link = "up"]
  /\ UNCHANGED <<now, nticks>>
  /\ DbUnchanged

\* mongoose.connection emits 'reconnected' after the driver has regained a
\* lost connection; only the second variant listens: isConnected is set.
DbReconnected ==
  /\ db.kind = "part_012"
  /\ db.lost
  /\ ~db.isConnected
  /\ db' = [db EXCEPT !.isConnected = TRUE, !.link = "up"]
  /\ UNCHANGED <<now, nticks>>
  /\ DbUnchanged

\* mongoose.connection emits 'error' on an open connection; the handler of
\* the second variant resets isConnected (that of db.js only counts).
DbError ==
  /\ db.kind = "part_012"
  /\ db.link = "up"
  /\ db.isConnected
  /\ db' = [db EXCEPT !.isConnected = FALSE]
  /\ UNCHANGED <<now, nticks>>
  /\ DbUnchanged

\* The process sets process.exitCode (a shutdown is under way).
DbExitCode ==
  /\ db.kind = "db.js"
  /\ ~db.exitCode
  /\ db' = [db EXCEPT !.exitCode = TRUE]
  /\ UNCHANGED <<now, nticks>>
  /\ DbUnchanged

\* mongoose.connection emits 'disconnected', when the open connection is
\* lost or when a pending attempt to open it gives up: isConnected is
\* reset, and db.js calls connectDB() to reconnect unless process.exitCode
\* is set.
DbDisconnected ==
  LET d == [db EXCEPT !.isConnected = FALSE, !.link = "down",
                      !.lost = @ \/ db.link = "up"]
      r == connectDB(d, NewCall, 0, now, FALSE)
  IN  /\ db.link = "up" \/ Connecting(db)
      /\ IF db.kind = "db.js" /\ ~db.exitCode
           THEN /\ Len(db.calls) < MaxDbCalls
                /\ db' = [r.d EXCEPT !.calls = Append(db.calls, r.c)]
           ELSE /\ db.link = "up"
                /\ db' = d
      /\ UNCHANGED <<now, nticks>>
      /\ DbUnchanged

NextDb ==
  \/ DbCall
  \/ \E i \in 1..MaxDbCalls, ok \in BOOLEAN : DbConnectSettles(i, ok)
  \/ \E i \in 1..MaxDbCalls : DbTimer(i)
  \/ DbConnected
  \/ DbReconnected
  \/ DbError
  \/ DbExitCode
  \/ DbDisconnected

SpecDb == InitDb /\ [][NextDb]_vars

\* C25: connectDB makes up to MAX_RETRIES attempts separated by the retry
\* delay, throws only after the last failed attempt, and never resolves
\* without an established connection, also when it is called while another
\* attempt is in progress.
C25_ConnectRetries ==
  \A i \in 1..Len(db.calls) :
    LET c == db.calls[i]
    IN  /\ Len(c.at) <= DB_MAX_RETRIES
        /\ \A k \in 2..Len(c.at) : c.at[k] - c.at[k - 1] >= DB_RETRY_DELAY
        /\ c.pc = "rejected" => Len(c.at) = DB_MAX_RETRIES
        /\ c.pc = "resolved" => c.connected

(***************************************************************************)
(* Migrations (migrations/migrate.js).  migrator holds the list loaded by  *)
(* loadMigrations and the names whose file exports down(), the migrations  *)
(* collection of the database (whether it exists and the _id of its        *)
(* documents), and one record per call of runMigrations or                 *)
(* rollbackMigrations: the await the call is at, the executed names it     *)
(* read and the migrations it works through.  Calls overlap: every await   *)
(* of a call is a step of its own, and each call to the database, to up()  *)
(* or to down() succeeds or throws.  History: the number of times each     *)
(* migration's up() completed, the order in which they completed, the      *)
(* state the last run of runMigrations started from, the number of         *)
(* rollbacks started and whether two calls were ever in progress together. *)
(***************************************************************************)
MaxRuns == 3

\* The characters of the file names, in the order of their code units.
Alphabet == <<"-", ".", "0", "1", "2", "3", "4", "5", "6", "7", "8", "9",
              "a", "b", "c", "d", "e", "f", "g", "h", "i", "j", "k", "l", "m",
              "n", "o", "p", "q", "r", "s", "t", "u", "v", "w", "x", "y", "z">>

CharCode(c) == CHOOSE i \in 1..Len(Alphabet) : Alphabet[i] = c

\* a < b as Array.prototype.sort() compares strings.
RECURSIVE StrLess(_, _)
StrLess(a, b) ==
  IF b = <<>> THEN FALSE
  ELSE IF a = <<>> THEN TRUE
  ELSE IF Head(a) # Head(b) THEN CharCode(Head(a)) < CharCode(Head(b))
  ELSE StrLess(Tail(a), Tail(b))

RECURSIVE SortStrings(_)
SortStrings(files) ==
  IF files = {} THEN <<>>
  ELSE LET first == CHOOSE f \in files : \A g \in files \ {f} : StrLess(f, g)
       IN  <<first>> \o SortStrings(files \ {first})

EndsWith(s, suffix) ==
  /\ Len(s) >= Len(suffix)
  /\ SubSeq(s, Len(s) - Len(suffix) + 1, Len(s)) = suffix

JsSuffix == <<".","j","s">>

\* file.replace(/\.js$/, '')
MigrationName(file) ==
  IF EndsWith(file, JsSuffix) THEN SubSeq(file, 1, Len(file) - Len(JsSuffix)) ELSE file

MigrationFiles == { <<"0","0","1","-","a",".","j","s">>, <<"0","0","2","-","b",".","j","s">>, <<"1","0","-","c",".","j","s">> }
OtherFiles == { <<"m","i","g","r","a","t","e",".","j","s">>, <<"m","i","g","r","a","t","i","o","n",".","t","e","m","p","l","a","t","e",".","j","s">>, <<"n","o","t","e","s",".","m","d">> }

\* The listings of the migrations directory.
Directories == { fs \cup OtherFiles : fs \in SUBSET MigrationFiles }

\* loadMigrations: the .js files other than the runner and the template,
\* sorted by file name, each under its name without the suffix.
loadMigrations(files) ==
  LET migrationFiles ==
        SortStrings({ f \in files : /\ EndsWith(f, JsSuffix)
                                    /\ f # <<"m","i","g","r","a","t","e",".","j","s">>
                                    /\ f # <<"m","i","g","r","a","t","i","o","n",".","t","e","m","p","l","a","t","e",".","j","s">> })
  IN  [i \in 1..Len(migrationFiles) |-> MigrationName(migrationFiles[i])]

\* The values of count handed to rollbackMigrations: parseInt of the
\* argument of the CLI (down [count], 1 when absent), NaN for an argument
\* that is no number.
RollbackCounts == {-1, 0, 1, NAN}

NoCounts == [m \in { MigrationName(f) : f \in MigrationFiles } |-> 0]

InitMigrate ==
  /\ \E files \in Directories :
       \E downs \in SUBSET { loadMigrations(files)[k] : k \in 1..Len(loadMigrations(files)) } :
         migrator = [state |-> "loaded", migrations |-> loadMigrations(files),
                     downs |-> downs,
                     collection |-> FALSE, executed |-> {},
                     run |-> <<>>,
                     applied |-> NoCounts,
                     order |-> <<>>,
                     rollbacks |-> 0,
                     overlap |-> FALSE,
                     before |-> [executed |-> {}, applied |-> NoCounts, pending |-> FALSE]]
  /\ variant = "esm"
  /\ now = 0
  /\ submissionHashes = <<>>
  /\ timers = {}
  /\ admits = <<>>
  /\ repeats = <<>>
  /\ limiter = NoLimiter
  /\ storage = <<>>
  /\ windows = <<>>
  /\ pc = "idle"
  /\ ran = <<>>
  /\ saved = {}
  /\ notified = {}
  /\ inflight = {}
  /\ isProduction = FALSE
  /\ telegramConfigured = TRUE
  /\ messages = <<>>
  /\ removed = {}
  /\ db = NoDb
  /\ client = NoClient
  /\ sessions = <<>>
  /\ csrfTokens = <<>>
  /\ issued = <<>>
  /\ req = NoReq
  /\ res = NoRes
  /\ nreq = 0
  /\ nticks = 0

MigrateUnchanged ==
  /\ UNCHANGED <<variant, now, pc, ran, saved, notified, inflight, isProduction, telegramConfigured, messages,
                 removed, db, client, req, res, nreq, nticks>>
  /\ UNCHANGED csrfVars
  /\ UNCHANGED guardVars
  /\ UNCHANGED limVars

\* A call that has ended, resolved or rejected with the error thrown.
Ended(r) == r.pc \in {"resolved", "rejected"}

\* A call is in progress.
Running(m) == \E k \in 1..Len(m.run) : ~Ended(m.run[k])

MigrateEnd(r, how) == [r EXCEPT !.pc = how, !.todo = <<>>, !.i = 0, !.seen = {}]

\* The call goes on to entry i of the migrations it works through: it
\* awaits up() in a run, down() (or markAsReverted at once, when the file
\* exports no down) in a rollback, and resolves after the last entry.
MigrateNext(m, r, i) ==
  IF i > Len(r.todo) THEN MigrateEnd(r, "resolved")
  ELSE [r EXCEPT !.i = i,
                 !.pc = IF r.kind = "up" THEN "up"
                        ELSE IF r.todo[i] \in m.downs THEN "down" ELSE "unmark"]

NewRun(kind, count) ==
  [kind |-> kind, count |-> count, pc |-> "list", todo |-> <<>>, i |-> 0, seen |-> {}]

MigrateStep(k, r, m) ==
  /\ migrator' = [m EXCEPT !.run = [m.run EXCEPT ![k] = r]]
  /\ MigrateUnchanged

\* runMigrations() is called: it enters ensureMigrationsCollection and
\* awaits listCollections.
runMigrations ==
  /\ Len(migrator.run) < MaxRuns
  /\ migrator' = [migrator EXCEPT
        !.run = Append(@, NewRun("up", 0)),
        !.overlap = @ \/ Running(migrator),
        !.before = [executed |-> migrator.executed,
                    applied |-> migrator.applied,
                    pending |-> \E k \in 1..Len(migrator.migrations) :
                                  migrator.migrations[k] \notin migrator.executed]]
  /\ MigrateUnchanged

\* rollbackMigrations(count) is called (CLI: down).
rollbackMigrations(count) ==
  /\ Len(migrator.run) < MaxRuns
  /\ migrator' = [migrator EXCEPT
        !.run = Append(@, NewRun("down", count)),
        !.overlap = @ \/ Running(migrator),
        !.rollbacks = @ + 1]
  /\ MigrateUnchanged

\* ensureMigrationsCollection: listCollections settles; the call creates
\* the collection when the listing is empty and reads it otherwise.
ensureMigrationsCollection(k, listOk) ==
  LET r == migrator.run[k]
  IN  /\ r.pc = "list"
      /\ MigrateStep(k,
           IF ~listOk THEN MigrateEnd(r, "rejected")
           ELSE [r EXCEPT !.pc = IF migrator.collection THEN "find" ELSE "create"],
           migrator)

\* createCollection settles: it throws when the write fails and when the
\* collection exists by now.
createCollection(k, createOk) ==
  LET r == migrator.run[k]
  IN  /\ r.pc = "create"
      /\ IF createOk /\ ~migrator.collection
           THEN MigrateStep(k, [r EXCEPT !.pc = "find"], [migrator EXCEPT !.collection = TRUE])
           ELSE MigrateStep(k, MigrateEnd(r, "rejected"), migrator)

\* Array.prototype.filter on the loaded list.
RECURSIVE FilterNames(_, _)
FilterNames(names, keep) ==
  IF names = <<>> THEN <<>>
  ELSE (IF Head(names) \in keep THEN <<Head(names)>> ELSE <<>>) \o FilterNames(Tail(names), keep)

\* Array.prototype.slice(-count): the start -count is taken from the end
\* when negative and from the front otherwise (0 for -0 and for NaN), and
\* clamped to the array.
SliceLast(s, count) ==
  LET start == IF count = NAN THEN 0 ELSE 0 - count
      from == IF start < 0
                THEN (IF Len(s) + start > 0 THEN Len(s) + start ELSE 0)
                ELSE (IF start < Len(s) THEN start ELSE Len(s))
  IN  SubSeq(s, from + 1, Len(s))

\* Array.prototype.reverse()
Reverse(s) == [i \in 1..Len(s) |-> s[Len(s) + 1 - i]]

\* getExecutedMigrations settles: the _id of the documents of the
\* collection; a failed read is logged and answered with the empty list.
\* A run goes through the loaded migrations not among the names read, a
\* rollback through the last count of those among them, latest first.
getExecutedMigrations(k, findOk) ==
  LET r == migrator.run[k]
      seen == IF findOk THEN migrator.executed ELSE {}
      all == { migrator.migrations[j] : j \in 1..Len(migrator.migrations) }
      todo == IF r.kind = "up"
                THEN FilterNames(migrator.migrations, all \ seen)
                ELSE Reverse(SliceLast(FilterNames(migrator.migrations, seen), r.count))
  IN  /\ r.pc = "find"
      /\ MigrateStep(k, MigrateNext(migrator, [r EXCEPT !.seen = seen, !.todo = todo], 1),
                     migrator)

\* await migration.up(this.db) settles.
MigrateUp(k, upOk) ==
  LET r == migrator.run[k]
      name == r.todo[r.i]
  IN  /\ r.pc = "up"
      /\ IF upOk
           THEN MigrateStep(k, [r EXCEPT !.pc = "mark"],
                  [migrator EXCEPT !.applied[name] = @ + 1, !.order = Append(@, name)])
           ELSE MigrateStep(k, MigrateEnd(r, "rejected"), migrator)

\* markAsExecuted: insertOne({_id: name}) settles; it throws when the write
\* fails and when a document with this _id exists.
markAsExecuted(k, insertOk) ==
  LET r == migrator.run[k]
      name == r.todo[r.i]
  IN  /\ r.pc = "mark"
      /\ IF insertOk /\ name \notin migrator.executed
           THEN MigrateStep(k, MigrateNext(migrator, r, r.i + 1),
                  [migrator EXCEPT !.executed = @ \cup {name}])
           ELSE MigrateStep(k, MigrateEnd(r, "rejected"), migrator)

\* await migration.down(this.db) settles.
MigrateDown(k, downOk) ==
  LET r == migrator.run[k]
  IN  /\ r.pc = "down"
      /\ MigrateStep(k, IF downOk THEN [r EXCEPT !.pc = "unmark"]
                                  ELSE MigrateEnd(r, "rejected"),
                     migrator)

\* markAsReverted: deleteOne({_id: name}) settles.
markAsReverted(k, deleteOk) ==
  LET r == migrator.run[k]
      name == r.todo[r.i]
  IN  /\ r.pc = "unmark"
      /\ IF deleteOk
           THEN MigrateStep(k, MigrateNext(migrator, r, r.i + 1),
                  [migrator EXCEPT !.executed = @ \ {name}])
           ELSE MigrateStep(k, MigrateEnd(r, "rejected"), migrator)

NextMigrate ==
  \/ runMigrations
  \/ \E count \in RollbackCounts : rollbackMigrations(count)
  \/ \E k \in 1..Len(migrator.run), listOk \in BOOLEAN : ensureMigrationsCollection(k, listOk)
  \/ \E k \in 1..Len(migrator.run), createOk \in BOOLEAN : createCollection(k, createOk)
  \/ \E k \in 1..Len(migrator.run), findOk \in BOOLEAN : getExecutedMigrations(k, findOk)
  \/ \E k \in 1..Len(migrator.run), upOk \in BOOLEAN : MigrateUp(k, upOk)
  \/ \E k \in 1..Len(migrator.run), insertOk \in BOOLEAN : markAsExecuted(k, insertOk)
  \/ \E k \in 1..Len(migrator.run), downOk \in BOOLEAN : MigrateDown(k, downOk)
  \/ \E k \in 1..Len(migrator.run), deleteOk \in BOOLEAN : markAsReverted(k, deleteOk)

SpecMigrate == InitMigrate /\ [][NextMigrate]_vars

\* C29: across a sequence of runMigrations calls (one after the other, no
\* rollback among them) every migration's up() completes at most once and
\* in ascending file-name order, a migration is recorded as executed only
\* after its up() has completed, and a run that started with no pending
\* migration leaves the database as it was.
C29_MigrationsOnceInOrder ==
  (migrator.rollbacks = 0 /\ ~migrator.overlap) =>
    /\ \A name \in DOMAIN migrator.applied : migrator.applied[name] <= 1
    /\ \A j \in 1..Len(migrator.order) : \A k \in 1..(j - 1) :
         StrLess(migrator.order[k] \o JsSuffix, migrator.order[j] \o JsSuffix)
    /\ \A name \in migrator.executed : migrator.applied[name] >= 1
    /\ (Len(migrator.run) > 0 /\ ~migrator.before.pending) =>
         (migrator.executed = migrator.before.executed
            /\ migrator.applied = migrator.before.applied)

====
